---- MODULE Spec2Model ----
(***************************************************************************)
(* A model of the watt/superfreq power-management daemon: the adaptive     *)
(* poll scheduler (daemon.rs), the policy engine with its turbo hysteresis *)
(* (engine.rs), the battery charge-threshold controller (battery.rs) and   *)
(* the daemon loop (daemon.rs).                                            *)
(*                                                                         *)
(* Conventions.  f32 quantities (usage %, temperature, load average,       *)
(* discharge rate, multipliers) are fixed-point integers in thousandths:   *)
(* 70.0 is 70000.  u64 quantities are naturals saturating at U64Max.       *)
(* Option<T> is a record [some, val].  A Result is a record [kind, ...].   *)
(***************************************************************************)
EXTENDS Integers, Sequences, FiniteSets, TLC

VARIABLES
    args,            \* pure-function harness: the arguments of the function applied
    ret,             \* pure-function harness: what the function returned
    power_supply,    \* /sys/class/power_supply: [exists, readable, devices]
    threshold_call,  \* the last set_battery_charge_thresholds call observed
    host,            \* the machine: what the control primitives come to
    config,          \* the AppConfig the process loaded at its start
    governor_override,        \* content of the governor override file
    PREVIOUS_TURBO_STATE,     \* engine.rs 186
    TURBO_STATE_INITIALIZED,  \* engine.rs 187
    engine_call,     \* the last determine_and_apply_settings call observed
    scenario,        \* monitor of the hysteresis scenario
    daemon,          \* run_daemon: its locals and what its last iteration did
    config_file,     \* the daemon section of the configuration file on disk
    config_age,      \* iterations completed since the file last changed (0, 1, 2+)
    clock,           \* seconds
    watcher,         \* the ConfigWatcher: its channel and last_event_time
    notify,          \* the watched file, the events still to come, the time
    watcher_call     \* the check_for_changes call in progress or last made

harness_vars == <<args, ret>>

battery_vars == <<power_supply, threshold_call>>

engine_vars ==
    <<host, config, governor_override, PREVIOUS_TURBO_STATE,
      TURBO_STATE_INITIALIZED, engine_call, scenario>>

watcher_vars == <<watcher, notify, watcher_call>>

daemon_vars == <<daemon, config_file, config_age, clock, watcher_vars>>

vars ==
    <<args, ret, power_supply, threshold_call, host, config,
      governor_override, PREVIOUS_TURBO_STATE, TURBO_STATE_INITIALIZED,
      engine_call, scenario, daemon, config_file,
      config_age, clock, watcher, notify, watcher_call>>

----------------------------------------------------------------------------
(* Option<T> *)

None == [some |-> FALSE, val |-> 0]

Some(v) == [some |-> TRUE, val |-> v]

(* The fixed-point scale of the f32 quantities (thousandths); it is also   *)
(* the code's own scaling_factor when it turns idle_factor into an integer *)
Milli == 1000

(* The value standing for u64::MAX: the saturation point of saturating_mul *)
U64Max == 100000000

Min2(a, b) == IF a <= b THEN a ELSE b

Max2(a, b) == IF a >= b THEN a ELSE b

(* u64::saturating_mul *)
saturating_mul(a, b) ==
    IF a = 0 \/ b = 0 THEN 0
    ELSE IF a > U64Max \div b THEN U64Max
    ELSE a * b

(* u64::saturating_div (the divisor is never 0 in the code) *)
saturating_div(a, b) == a \div b

----------------------------------------------------------------------------
(* f32::log2 of a positive integer, in thousandths, by shift-and-square on *)
(* a 2^14 fixed-point mantissa (exact to the thousandth for 1..66).        *)

RECURSIVE FloorLog2(_)
FloorLog2(m) == IF m < 2 THEN 0 ELSE 1 + FloorLog2(m \div 2)

RECURSIVE Pow2(_)
Pow2(k) == IF k = 0 THEN 1 ELSE 2 * Pow2(k - 1)

(* frac accumulates the fractional bits of log2(x / 2^14), x in [2^14, 2^15) *)
RECURSIVE Log2Frac(_, _, _)
Log2Frac(x, bit, frac) ==
    IF bit = 0 THEN frac
    ELSE LET sq == (x * x) \div 16384
         IN  IF sq >= 32768
             THEN Log2Frac(sq \div 2, bit - 1, frac + Pow2(bit - 1))
             ELSE Log2Frac(sq, bit - 1, frac)

log2(m) ==
    LET k == FloorLog2(m)
        x == IF k <= 14 THEN m * Pow2(14 - k) ELSE m \div Pow2(k - 14)
    IN  k * Milli + (Log2Frac(x, 12, 0) * Milli) \div 4096

----------------------------------------------------------------------------
(* daemon.rs: idle_multiplier, in thousandths *)

(* a variant that ramps over 60 s instead of 120 s (minutes/seconds slip) *)
idle_multiplier_ramp60(idle_secs) ==
    IF idle_secs = 0 THEN Milli
    ELSE LET idle_factor ==
                 IF idle_secs < 120
                 THEN Milli + (idle_secs * Milli) \div 60
                 ELSE Milli + Max2(log2(idle_secs \div 60), 500)
         IN  Min2(idle_factor, 5000)

idle_multiplier(idle_secs) ==
    IF idle_secs = 0 THEN Milli
    ELSE LET idle_factor ==
                 IF idle_secs < 120
                 THEN Milli + (idle_secs * Milli) \div 120
                 ELSE LET idle_time_minutes == idle_secs \div 60
                      IN  Milli + Max2(log2(idle_time_minutes), 500)
         IN  Min2(idle_factor, 5000)

----------------------------------------------------------------------------
(* daemon.rs: validate_poll_intervals; TRUE is Ok(()), FALSE is Err *)

validate_poll_intervals(min_interval, max_interval) ==
    max_interval >= min_interval

(* Results of the interval computation: Ok(value), Err(message), or the    *)
(* panic of Ord::clamp, which asserts min <= max                           *)
Ok(v) == [kind |-> "Ok", value |-> v]

Err == [kind |-> "Err", value |-> 0]

Panic == [kind |-> "Panic", value |-> 0]

(* u64::clamp(lo, hi) where lo <= hi *)
clamp(x, lo, hi) == IF x < lo THEN lo ELSE IF x > hi THEN hi ELSE x

(* daemon.rs 71-89: the battery multiplier *)
battery_adjusted(params) ==
    LET base == params.base_interval
        rate == params.battery_discharge_rate
    IN  IF ~params.on_battery THEN base
        ELSE IF rate.some
             THEN IF rate.val > 20000 THEN saturating_mul(base, 3)
                  ELSE IF rate.val > 10000 THEN saturating_mul(base, 2)
                  ELSE saturating_div(saturating_mul(base, 3), 2)
             ELSE saturating_mul(base, 2)

(* daemon.rs 91-116: the idle multiplier, through the integer scaling *)
idle_adjusted(params, adjusted_interval) ==
    LET idle_time_seconds == params.last_user_activity
    IN  IF params.is_system_idle /\ idle_time_seconds > 0
        THEN LET scaling_factor == Milli
                 scaled_factor == idle_multiplier(idle_time_seconds)
             IN  saturating_div(saturating_mul(adjusted_interval, scaled_factor),
                                scaling_factor)
        ELSE adjusted_interval

(* halving only when both volatilities exceed their limits *)
volatility_adjusted_both(params, adjusted_interval) ==
    IF params.cpu_volatility > 10000 /\ params.temp_volatility > 2000
    THEN Max2(adjusted_interval \div 2, 1)
    ELSE adjusted_interval

(* daemon.rs 118-122: halving under volatility *)
volatility_adjusted(params, adjusted_interval) ==
    IF params.cpu_volatility > 10000 \/ params.temp_volatility > 2000
    THEN Max2(adjusted_interval \div 2, 1)
    ELSE adjusted_interval

(* a blend that weighs the cached and the new interval equally *)
blended_evenly(cached, new_interval) ==
    IF cached.some
    THEN (cached.val * 5 + new_interval * 5) \div 10
    ELSE new_interval

(* daemon.rs 128-144: 70/30 blend with the cached interval *)
blended(cached, new_interval) ==
    IF cached.some
    THEN (cached.val * 7 + new_interval * 3) \div 10
    ELSE new_interval

(* daemon.rs 64-149: compute_new *)
compute_new(params, system_history) ==
    IF ~validate_poll_intervals(params.min_interval, params.max_interval)
    THEN Err
    ELSE LET adjusted_interval ==
                 volatility_adjusted(params,
                     idle_adjusted(params, battery_adjusted(params)))
             min_safe_interval == Max2(params.min_interval, 1)
         IN  IF min_safe_interval > params.max_interval
             THEN Panic
             ELSE LET new_interval == clamp(adjusted_interval, min_safe_interval,
                                            params.max_interval)
                      blended_interval ==
                          blended(system_history.last_computed_interval, new_interval)
                  IN  Ok(clamp(blended_interval, min_safe_interval,
                               params.max_interval))

----------------------------------------------------------------------------
(* config/types.rs: BatteryChargeThresholds::new; TRUE is Ok(Self),        *)
(* FALSE is Err(ConfigError::ValidationError)                              *)

BatteryChargeThresholds_new_no_upper(start, stop) ==
    ~(stop = 0) /\ ~(start >= stop)

BatteryChargeThresholds_new(start, stop) ==
    IF stop = 0 THEN FALSE
    ELSE IF start >= stop THEN FALSE
    ELSE IF stop > 100 THEN FALSE
    ELSE TRUE

(* battery.rs: THRESHOLD_PATTERNS, in probing order *)
THRESHOLD_PATTERNS ==
    << [description |-> "Standard",
        start_path |-> "charge_control_start_threshold",
        stop_path |-> "charge_control_end_threshold"],
       [description |-> "ASUS",
        start_path |-> "charge_control_start_percentage",
        stop_path |-> "charge_control_end_percentage"],
       [description |-> "ThinkPad/Huawei",
        start_path |-> "charge_start_threshold",
        stop_path |-> "charge_stop_threshold"],
       [description |-> "Framework",
        start_path |-> "charge_behaviour_start_threshold",
        stop_path |-> "charge_behaviour_end_threshold"] >>

(* A power-supply device is [name, type, files]: type is the content of    *)
(* its type file ("Battery", "Mains"), "missing" when it has none, or      *)
(* "unreadable" when reading it fails; files maps each existing threshold  *)
(* file to [writable, value], value being the number its text denotes.     *)

(* a probe that only checks that the file exists *)
path_exists_only(dev, file) == file \in DOMAIN dev.files

(* util/sysfs.rs: path_exists_and_writable *)
path_exists_and_writable(dev, file) ==
    IF ~(file \in DOMAIN dev.files) THEN FALSE
    ELSE dev.files[file].writable

(* battery.rs: find_battery_with_threshold_support; the index of the first *)
(* matching pattern, None when no pattern matches                          *)
RECURSIVE first_pattern_from(_, _)
first_pattern_from(dev, i) ==
    IF i > Len(THRESHOLD_PATTERNS) THEN None
    ELSE IF /\ path_exists_and_writable(dev, THRESHOLD_PATTERNS[i].start_path)
            /\ path_exists_and_writable(dev, THRESHOLD_PATTERNS[i].stop_path)
         THEN Some(i)
         ELSE first_pattern_from(dev, i + 1)

find_battery_with_threshold_support(dev) == first_pattern_from(dev, 1)

(* battery.rs: is_battery; "Err" when the type file cannot be read *)
is_battery(dev) ==
    IF dev.type = "missing" THEN "false"
    ELSE IF dev.type = "unreadable" THEN "Err"
    ELSE IF dev.type = "Battery" THEN "true" ELSE "false"

(* battery.rs: find_supported_batteries over the entries from position i;  *)
(* found is the list of [dev, pattern] so far, probed the devices examined *)
RECURSIVE find_supported_from(_, _, _, _)
find_supported_from(devices, i, found, probed) ==
    IF i > Len(devices)
    THEN [kind |-> "Ok", batteries |-> found, probed |-> probed]
    ELSE LET dev == devices[i]
             isb == is_battery(dev)
             pat == find_battery_with_threshold_support(dev)
         IN  IF isb = "Err"
             THEN [kind |-> "ReadError", batteries |-> <<>>,
                   probed |-> Append(probed, i)]
             ELSE IF isb = "true" /\ pat.some
                  THEN find_supported_from(devices, i + 1,
                           Append(found, [dev |-> i, pattern |-> pat.val]),
                           Append(probed, i))
                  ELSE find_supported_from(devices, i + 1, found,
                                           Append(probed, i))

find_supported_batteries(ps) ==
    IF ~ps.readable
    THEN [kind |-> "PermissionDenied", batteries |-> <<>>, probed |-> <<>>]
    ELSE find_supported_from(ps.devices, 1, <<>>, <<>>)

(* A write of value to a file of device d: the file changes iff it succeeds *)
written(devices, d, file, value, ok) ==
    IF ok THEN [devices EXCEPT ![d].files[file].value = value]
    ELSE devices

WriteEvent(d, file, value, ok) ==
    [op |-> "write", dev |-> d, file |-> file, value |-> value, ok |-> ok]

ReadEvent(d, file, value, ok) ==
    [op |-> "read", dev |-> d, file |-> file, value |-> value, ok |-> ok]

(* battery.rs 160-211: one battery of apply_thresholds_to_batteries.       *)
(* io = [read_ok, stop_ok, start_ok, restore_ok] is what the four file     *)
(* operations do on this battery.  Returns [devices, log, success].        *)
apply_one_no_restore(devices, battery, start_threshold, stop_threshold, io) ==
    LET d == battery.dev
        start_path == THRESHOLD_PATTERNS[battery.pattern].start_path
        stop_path == THRESHOLD_PATTERNS[battery.pattern].stop_path
        events1 == << ReadEvent(d, stop_path,
                             IF io.read_ok
                             THEN devices[d].files[stop_path].value ELSE 0,
                             io.read_ok),
                   WriteEvent(d, stop_path, stop_threshold, io.stop_ok) >>
        devices1 == written(devices, d, stop_path, stop_threshold, io.stop_ok)
    IN  IF io.stop_ok
        THEN [devices |-> written(devices1, d, start_path, start_threshold,
                                  io.start_ok),
              log |-> Append(events1, WriteEvent(d, start_path, start_threshold,
                                              io.start_ok)),
              success |-> io.start_ok]
        ELSE [devices |-> devices1, log |-> events1, success |-> FALSE]

(* one battery, the stop threshold restored to a full charge of 100        *)
(* instead of the value read before the writes                             *)
apply_one_restore_full_charge(devices, battery, start_threshold, stop_threshold, io) ==
    LET d == battery.dev
        start_path == THRESHOLD_PATTERNS[battery.pattern].start_path
        stop_path == THRESHOLD_PATTERNS[battery.pattern].stop_path
        current_stop == IF io.read_ok
                        THEN Some(devices[d].files[stop_path].value)
                        ELSE None
        events1 == << ReadEvent(d, stop_path, current_stop.val, io.read_ok),
                   WriteEvent(d, stop_path, stop_threshold, io.stop_ok) >>
        devices1 == written(devices, d, stop_path, stop_threshold, io.stop_ok)
    IN  IF io.stop_ok
        THEN LET events2 == Append(events1, WriteEvent(d, start_path, start_threshold,
                                                 io.start_ok))
                 devices2 == written(devices1, d, start_path, start_threshold,
                                  io.start_ok)
             IN  IF io.start_ok
                 THEN [devices |-> devices2, log |-> events2, success |-> TRUE]
                 ELSE IF current_stop.some
                      THEN [devices |-> written(devices2, d, stop_path,
                                                100, io.restore_ok),
                            log |-> Append(events2, WriteEvent(d, stop_path,
                                          100, io.restore_ok)),
                            success |-> FALSE]
                      ELSE [devices |-> devices2, log |-> events2, success |-> FALSE]
        ELSE [devices |-> devices1, log |-> events1, success |-> FALSE]

(* one battery, the start threshold written whether or not the stop write  *)
(* succeeded                                                               *)
apply_one_start_regardless(devices, battery, start_threshold, stop_threshold, io) ==
    LET d == battery.dev
        start_path == THRESHOLD_PATTERNS[battery.pattern].start_path
        stop_path == THRESHOLD_PATTERNS[battery.pattern].stop_path
        events == << ReadEvent(d, stop_path,
                            IF io.read_ok
                            THEN devices[d].files[stop_path].value ELSE 0,
                            io.read_ok),
                     WriteEvent(d, stop_path, stop_threshold, io.stop_ok),
                     WriteEvent(d, start_path, start_threshold, io.start_ok) >>
    IN  [devices |-> written(written(devices, d, stop_path, stop_threshold,
                                     io.stop_ok),
                             d, start_path, start_threshold, io.start_ok),
         log |-> events, success |-> io.stop_ok /\ io.start_ok]

apply_one(devices, battery, start_threshold, stop_threshold, io) ==
    LET d == battery.dev
        start_path == THRESHOLD_PATTERNS[battery.pattern].start_path
        stop_path == THRESHOLD_PATTERNS[battery.pattern].stop_path
        current_stop == IF io.read_ok
                        THEN Some(devices[d].files[stop_path].value)
                        ELSE None
        events1 == << ReadEvent(d, stop_path, current_stop.val, io.read_ok),
                   WriteEvent(d, stop_path, stop_threshold, io.stop_ok) >>
        devices1 == written(devices, d, stop_path, stop_threshold, io.stop_ok)
    IN  IF io.stop_ok
        THEN LET events2 == Append(events1, WriteEvent(d, start_path, start_threshold,
                                                 io.start_ok))
                 devices2 == written(devices1, d, start_path, start_threshold,
                                  io.start_ok)
             IN  IF io.start_ok
                 THEN [devices |-> devices2, log |-> events2, success |-> TRUE]
                 ELSE IF current_stop.some
                      THEN [devices |-> written(devices2, d, stop_path,
                                                current_stop.val, io.restore_ok),
                            log |-> Append(events2, WriteEvent(d, stop_path,
                                          current_stop.val, io.restore_ok)),
                            success |-> FALSE]
                      ELSE [devices |-> devices2, log |-> events2, success |-> FALSE]
        ELSE [devices |-> devices1, log |-> events1, success |-> FALSE]

RECURSIVE apply_from_all_or_nothing(_, _, _, _, _, _, _, _)
(* an aggregation that succeeds only if every battery was set *)
apply_from_all_or_nothing(devices, batteries, i, start_threshold, stop_threshold, ios, log, success_count) ==
    IF i > Len(batteries)
    THEN [kind |-> IF success_count = Len(batteries) THEN "Ok"
                   ELSE "WriteError",
          devices |-> devices, log |-> log]
    ELSE LET r == apply_one(devices, batteries[i], start_threshold,
                            stop_threshold, ios[i])
         IN  apply_from_all_or_nothing(r.devices, batteries, i + 1,
                        start_threshold, stop_threshold, ios, log \o r.log,
                        IF r.success THEN success_count + 1 ELSE success_count)

(* battery.rs 152-227: apply_thresholds_to_batteries, from battery i on;   *)
(* ios[i] is the io of the i-th supported battery                          *)
RECURSIVE apply_from(_, _, _, _, _, _, _, _)
apply_from(devices, batteries, i, start_threshold, stop_threshold, ios, log, success_count) ==
    IF i > Len(batteries)
    THEN [kind |-> IF success_count > 0 THEN "Ok" ELSE "WriteError",
          devices |-> devices, log |-> log]
    ELSE LET r == apply_one(devices, batteries[i], start_threshold,
                            stop_threshold, ios[i])
         IN  apply_from(r.devices, batteries, i + 1, start_threshold,
                        stop_threshold, ios, log \o r.log,
                        IF r.success THEN success_count + 1 ELSE success_count)

apply_thresholds_to_batteries(devices, batteries, start_threshold, stop_threshold, ios) ==
    apply_from(devices, batteries, 1, start_threshold, stop_threshold, ios,
               <<>>, 0)

(* a controller that reports success when no battery is supported *)
set_battery_charge_thresholds_empty_ok(ps, start_threshold, stop_threshold, ios) ==
    IF ~BatteryChargeThresholds_new(start_threshold, stop_threshold)
    THEN [kind |-> "InvalidValueError", devices |-> ps.devices,
          probed |-> <<>>, log |-> <<>>]
    ELSE IF ~ps.exists
    THEN [kind |-> "NotSupported", devices |-> ps.devices,
          probed |-> <<>>, log |-> <<>>]
    ELSE LET supported_batteries == find_supported_batteries(ps)
         IN  IF supported_batteries.kind # "Ok"
             THEN [kind |-> supported_batteries.kind, devices |-> ps.devices,
                   probed |-> supported_batteries.probed, log |-> <<>>]
             ELSE LET r == apply_thresholds_to_batteries(ps.devices,
                               supported_batteries.batteries, start_threshold,
                               stop_threshold, ios)
                  IN  [kind |-> IF supported_batteries.batteries = <<>>
                                THEN "Ok" ELSE r.kind,
                       devices |-> r.devices,
                       probed |-> supported_batteries.probed, log |-> r.log]

(* battery.rs 73-101: set_battery_charge_thresholds on the power-supply    *)
(* tree ps = [exists, readable, devices].  Returns the result kind, the    *)
(* devices afterwards, the devices probed and the log of file operations.  *)
set_battery_charge_thresholds(ps, start_threshold, stop_threshold, ios) ==
    IF ~BatteryChargeThresholds_new(start_threshold, stop_threshold)
    THEN [kind |-> "InvalidValueError", devices |-> ps.devices,
          probed |-> <<>>, log |-> <<>>]
    ELSE IF ~ps.exists
    THEN [kind |-> "NotSupported", devices |-> ps.devices,
          probed |-> <<>>, log |-> <<>>]
    ELSE LET supported_batteries == find_supported_batteries(ps)
         IN  IF supported_batteries.kind # "Ok"
             THEN [kind |-> supported_batteries.kind, devices |-> ps.devices,
                   probed |-> supported_batteries.probed, log |-> <<>>]
             ELSE IF supported_batteries.batteries = <<>>
             THEN [kind |-> "NotSupported", devices |-> ps.devices,
                   probed |-> supported_batteries.probed, log |-> <<>>]
             ELSE LET r == apply_thresholds_to_batteries(ps.devices,
                               supported_batteries.batteries, start_threshold,
                               stop_threshold, ios)
                  IN  [kind |-> r.kind, devices |-> r.devices,
                       probed |-> supported_batteries.probed, log |-> r.log]

----------------------------------------------------------------------------
(* The snapshot (core.rs): the fields the engine and the daemon read.      *)

NoString == [some |-> FALSE, val |-> ""]

NoBool == [some |-> FALSE, val |-> FALSE]

CpuCoreInfo(usage_percent) == [usage_percent |-> usage_percent]

BatteryInfo(ac_connected, capacity_percent) ==
    [ac_connected |-> ac_connected, capacity_percent |-> capacity_percent]

SystemReport(batteries, cpu_cores, average_temperature_celsius, load_avg_1min) ==
    [batteries |-> batteries, cpu_cores |-> cpu_cores,
     average_temperature_celsius |-> average_temperature_celsius,
     load_avg_1min |-> load_avg_1min]

----------------------------------------------------------------------------
(* The control primitives (cpu.rs) as the policy engine sees them: a call  *)
(* returns "Ok" or the kind of its ControlError.  The machine is           *)
(* h = [governors_known, available_governors, outcome]: whether a list of  *)
(* available governors can be found, that list, and for each primitive     *)
(* what the sysfs accesses behind it come to on this machine.              *)

(* cpu.rs 106-131: the governor is validated against the available ones    *)
(* (135-146; no list at all is NotSupported, 149-214), then written to     *)
(* every core                                                              *)
set_governor(governor, h) ==
    IF ~h.governors_known THEN "NotSupported"
    ELSE IF governor \notin h.available_governors THEN "InvalidValueError"
    ELSE h.outcome.governor

(* cpu.rs 220-264: Always, Never and Auto alike are written to the first   *)
(* boost control file found; NotSupported when there is none               *)
set_turbo(setting, h) == h.outcome.turbo

(* cpu.rs 283-303 *)
set_epp(epp, h) == h.outcome.epp

(* cpu.rs 326-339 *)
set_epb(epb, h) == h.outcome.epb

(* cpu.rs 369-394 *)
set_min_frequency(freq_mhz, h) == h.outcome.min_freq

(* cpu.rs 396-421 *)
set_max_frequency(freq_mhz, h) == h.outcome.max_freq

(* cpu.rs 496-517 *)
set_platform_profile(profile, h) == h.outcome.platform_profile

(* cpu.rs 616-622: the content of the override file, if there is one *)
get_governor_override(override_file) == override_file

----------------------------------------------------------------------------
(* Policy engine (engine.rs).                                              *)

(* config/types.rs 179-206: TurboAutoSettings::default *)
TurboAutoSettings_default ==
    [load_threshold_high |-> 70 * Milli, load_threshold_low |-> 30 * Milli,
     temp_threshold_high |-> 75 * Milli]

NoTurboAutoSettings == [some |-> FALSE, val |-> TurboAutoSettings_default]

NoThresholds == [some |-> FALSE, val |-> [start |-> 0, stop |-> 0]]

(* a validation that does not look at the temperature threshold *)
validate_turbo_auto_settings_no_temp(settings) ==
    IF settings.load_threshold_high <= settings.load_threshold_low
    THEN "ConfigurationError"
    ELSE IF \/ settings.load_threshold_high > 100 * Milli
            \/ settings.load_threshold_low < 0
    THEN "ConfigurationError"
    ELSE "Ok"

(* engine.rs 297-322 *)
validate_turbo_auto_settings(settings) ==
    IF settings.load_threshold_high <= settings.load_threshold_low
    THEN "ConfigurationError"
    ELSE IF \/ settings.load_threshold_high > 100 * Milli
            \/ settings.load_threshold_low < 0
    THEN "ConfigurationError"
    ELSE IF \/ settings.temp_threshold_high <= 0
            \/ settings.temp_threshold_high > 110 * Milli
    THEN "ConfigurationError"
    ELSE "Ok"

RECURSIVE usage_sum(_, _)
(* engine.rs 203-207: the sum of the usage readings of cores i.. *)
usage_sum(cpu_cores, i) ==
    IF i > Len(cpu_cores) THEN 0
    ELSE (IF cpu_cores[i].usage_percent.some
          THEN cpu_cores[i].usage_percent.val ELSE 0)
         + usage_sum(cpu_cores, i + 1)

(* engine.rs 208-212: the number of cores with a usage reading *)
usage_count(cpu_cores) ==
    Cardinality({i \in 1..Len(cpu_cores) : cpu_cores[i].usage_percent.some})

(* engine.rs 200-219 *)
avg_cpu_usage(cpu_cores) ==
    IF cpu_cores = <<>> THEN None
    ELSE IF usage_count(cpu_cores) > 0
    THEN Some(usage_sum(cpu_cores, 1) \div usage_count(cpu_cores))
    ELSE None

(* the match of engine.rs 230-272 without its hysteresis arm *)
enable_turbo_no_hysteresis(cpu_temp, usage, previous_turbo_enabled, turbo_settings) ==
    IF cpu_temp.some /\ cpu_temp.val >= turbo_settings.temp_threshold_high
    THEN FALSE
    ELSE IF usage.some /\ usage.val >= turbo_settings.load_threshold_high
    THEN TRUE
    ELSE FALSE

(* the match of engine.rs 230-272 with the load arm before the             *)
(* temperature arm                                                         *)
enable_turbo_load_first(cpu_temp, usage, previous_turbo_enabled, turbo_settings) ==
    IF usage.some /\ usage.val >= turbo_settings.load_threshold_high
    THEN TRUE
    ELSE IF cpu_temp.some /\ cpu_temp.val >= turbo_settings.temp_threshold_high
    THEN FALSE
    ELSE IF usage.some /\ usage.val <= turbo_settings.load_threshold_low
    THEN FALSE
    ELSE IF /\ usage.some /\ previous_turbo_enabled.some
            /\ usage.val > turbo_settings.load_threshold_low
            /\ usage.val < turbo_settings.load_threshold_high
    THEN previous_turbo_enabled.val
    ELSE FALSE

(* the match of engine.rs 230-272 with a default arm that keeps the        *)
(* previous state                                                          *)
enable_turbo_default_keeps_previous(cpu_temp, usage, previous_turbo_enabled, turbo_settings) ==
    IF cpu_temp.some /\ cpu_temp.val >= turbo_settings.temp_threshold_high
    THEN FALSE
    ELSE IF usage.some /\ usage.val >= turbo_settings.load_threshold_high
    THEN TRUE
    ELSE IF usage.some /\ usage.val <= turbo_settings.load_threshold_low
    THEN FALSE
    ELSE IF /\ usage.some /\ previous_turbo_enabled.some
            /\ usage.val > turbo_settings.load_threshold_low
            /\ usage.val < turbo_settings.load_threshold_high
    THEN previous_turbo_enabled.val
    ELSE previous_turbo_enabled.some /\ previous_turbo_enabled.val

(* engine.rs 230-272: the decision, arm by arm *)
enable_turbo(cpu_temp, usage, previous_turbo_enabled, turbo_settings) ==
    IF cpu_temp.some /\ cpu_temp.val >= turbo_settings.temp_threshold_high
    THEN FALSE
    ELSE IF usage.some /\ usage.val >= turbo_settings.load_threshold_high
    THEN TRUE
    ELSE IF usage.some /\ usage.val <= turbo_settings.load_threshold_low
    THEN FALSE
    ELSE IF /\ usage.some /\ previous_turbo_enabled.some
            /\ usage.val > turbo_settings.load_threshold_low
            /\ usage.val < turbo_settings.load_threshold_high
    THEN previous_turbo_enabled.val
    ELSE FALSE

(* one invocation of a control primitive, as observed *)
Call(primitive, value, outcome) ==
    [primitive |-> primitive, value |-> value, outcome |-> outcome]

(* what a cycle without an auto-turbo decision records about it *)
NoDecision ==
    [decided |-> FALSE, cpu_temp |-> None, avg_cpu_usage |-> None,
     previous_turbo_enabled |-> NoBool,
     turbo_settings |-> TurboAutoSettings_default, enable_turbo |-> FALSE]

(* engine.rs 189-295 with the statics stored after set_turbo, and only     *)
(* when it succeeded                                                       *)
manage_auto_turbo_store_on_success(report, profile, h, previous_state, initialized) ==
    LET turbo_settings == IF profile.turbo_auto_settings.some
                          THEN profile.turbo_auto_settings.val
                          ELSE TurboAutoSettings_default
        cpu_temp == report.average_temperature_celsius
        usage == avg_cpu_usage(report.cpu_cores)
        previous_turbo_enabled == IF initialized THEN Some(previous_state)
                                  ELSE NoBool
        enable == enable_turbo(cpu_temp, usage, previous_turbo_enabled,
                               turbo_settings)
        turbo_setting == IF enable THEN "Always" ELSE "Never"
        outcome == set_turbo(turbo_setting, h)
    IN  IF validate_turbo_auto_settings(turbo_settings) # "Ok"
        THEN [result |-> "ConfigurationError", calls |-> <<>>,
              decision |-> NoDecision,
              previous_state |-> previous_state, initialized |-> initialized]
        ELSE [result |-> IF outcome = "Ok" THEN "Ok" ELSE "ControlError",
              calls |-> <<Call("set_turbo", turbo_setting, outcome)>>,
              decision |->
                  [decided |-> TRUE, cpu_temp |-> cpu_temp,
                   avg_cpu_usage |-> usage,
                   previous_turbo_enabled |-> previous_turbo_enabled,
                   turbo_settings |-> turbo_settings,
                   enable_turbo |-> enable],
              previous_state |-> IF outcome = "Ok" THEN enable
                                 ELSE previous_state,
              initialized |-> IF outcome = "Ok" THEN TRUE ELSE initialized]

(* engine.rs 189-295 with the Auto request itself handed to set_turbo *)
manage_auto_turbo_passing_auto(report, profile, h, previous_state, initialized) ==
    LET turbo_settings == IF profile.turbo_auto_settings.some
                          THEN profile.turbo_auto_settings.val
                          ELSE TurboAutoSettings_default
        cpu_temp == report.average_temperature_celsius
        usage == avg_cpu_usage(report.cpu_cores)
        previous_turbo_enabled == IF initialized THEN Some(previous_state)
                                  ELSE NoBool
        enable == enable_turbo(cpu_temp, usage, previous_turbo_enabled,
                               turbo_settings)
        outcome == set_turbo("Auto", h)
    IN  IF validate_turbo_auto_settings(turbo_settings) # "Ok"
        THEN [result |-> "ConfigurationError", calls |-> <<>>,
              decision |-> NoDecision,
              previous_state |-> previous_state, initialized |-> initialized]
        ELSE [result |-> IF outcome = "Ok" THEN "Ok" ELSE "ControlError",
              calls |-> <<Call("set_turbo", "Auto", outcome)>>,
              decision |->
                  [decided |-> TRUE, cpu_temp |-> cpu_temp,
                   avg_cpu_usage |-> usage,
                   previous_turbo_enabled |-> previous_turbo_enabled,
                   turbo_settings |-> turbo_settings,
                   enable_turbo |-> enable],
              previous_state |-> enable, initialized |-> TRUE]

(* engine.rs 189-295 with the settings validated after the decision has    *)
(* been stored                                                             *)
manage_auto_turbo_validating_late(report, profile, h, previous_state, initialized) ==
    LET turbo_settings == IF profile.turbo_auto_settings.some
                          THEN profile.turbo_auto_settings.val
                          ELSE TurboAutoSettings_default
        cpu_temp == report.average_temperature_celsius
        usage == avg_cpu_usage(report.cpu_cores)
        previous_turbo_enabled == IF initialized THEN Some(previous_state)
                                  ELSE NoBool
        enable == enable_turbo(cpu_temp, usage, previous_turbo_enabled,
                               turbo_settings)
        turbo_setting == IF enable THEN "Always" ELSE "Never"
        outcome == set_turbo(turbo_setting, h)
    IN  IF validate_turbo_auto_settings(turbo_settings) # "Ok"
        THEN [result |-> "ConfigurationError", calls |-> <<>>,
              decision |-> NoDecision,
              previous_state |-> enable, initialized |-> TRUE]
        ELSE [result |-> IF outcome = "Ok" THEN "Ok" ELSE "ControlError",
              calls |-> <<Call("set_turbo", turbo_setting, outcome)>>,
              decision |->
                  [decided |-> TRUE, cpu_temp |-> cpu_temp,
                   avg_cpu_usage |-> usage,
                   previous_turbo_enabled |-> previous_turbo_enabled,
                   turbo_settings |-> turbo_settings,
                   enable_turbo |-> enable],
              previous_state |-> enable, initialized |-> TRUE]

(* engine.rs 189-295.  previous_state and initialized are the two statics  *)
(* PREVIOUS_TURBO_STATE and TURBO_STATE_INITIALIZED (186-187); the result  *)
(* carries their values after the call.                                    *)
manage_auto_turbo(report, profile, h, previous_state, initialized) ==
    LET turbo_settings == IF profile.turbo_auto_settings.some
                          THEN profile.turbo_auto_settings.val
                          ELSE TurboAutoSettings_default
        cpu_temp == report.average_temperature_celsius
        usage == avg_cpu_usage(report.cpu_cores)
        previous_turbo_enabled == IF initialized THEN Some(previous_state)
                                  ELSE NoBool
        enable == enable_turbo(cpu_temp, usage, previous_turbo_enabled,
                               turbo_settings)
        turbo_setting == IF enable THEN "Always" ELSE "Never"
        outcome == set_turbo(turbo_setting, h)
    IN  IF validate_turbo_auto_settings(turbo_settings) # "Ok"
        THEN [result |-> "ConfigurationError", calls |-> <<>>,
              decision |-> NoDecision,
              previous_state |-> previous_state, initialized |-> initialized]
        ELSE [result |-> IF outcome = "Ok" THEN "Ok" ELSE "ControlError",
              calls |-> <<Call("set_turbo", turbo_setting, outcome)>>,
              decision |->
                  [decided |-> TRUE, cpu_temp |-> cpu_temp,
                   avg_cpu_usage |-> usage,
                   previous_turbo_enabled |-> previous_turbo_enabled,
                   turbo_settings |-> turbo_settings,
                   enable_turbo |-> enable],
              previous_state |-> enable, initialized |-> TRUE]

(* one step of the cycle: whether it is configured, the primitive calls it *)
(* makes and what it returns                                               *)
Step(configured, calls, result) ==
    [configured |-> configured, calls |-> calls, result |-> result]

(* engine.rs 14-38 with InvalidValueError skipped like NotSupported *)
try_apply_feature_tolerating_invalid(configured, primitive, value, outcome) ==
    Step(configured, <<Call(primitive, value, outcome)>>,
         IF outcome \in {"Ok", "InvalidValueError", "NotSupported"}
         THEN "Ok" ELSE "ControlError")

(* engine.rs 14-38: NotSupported is skipped, any other error propagates *)
try_apply_feature(configured, primitive, value, outcome) ==
    Step(configured, <<Call(primitive, value, outcome)>>,
         IF outcome \in {"Ok", "NotSupported"} THEN "Ok" ELSE "ControlError")

(* the profile governor applied like any other feature: only NotSupported  *)
(* is skipped                                                              *)
apply_profile_governor_strict(configured, value, outcome) ==
    Step(configured, <<Call("set_governor", value, outcome)>>,
         IF outcome \in {"Ok", "NotSupported"} THEN "Ok" ELSE "ControlError")

(* engine.rs 95-110: the profile governor also tolerates InvalidValueError *)
apply_profile_governor(configured, value, outcome) ==
    Step(configured, <<Call("set_governor", value, outcome)>>,
         IF outcome \in {"Ok", "InvalidValueError", "NotSupported"}
         THEN "Ok" ELSE "ControlError")

RECURSIVE run_steps_no_abort(_, _)
(* steps that go on past a step that returned an error *)
run_steps_no_abort(steps, i) ==
    IF i > Len(steps)
    THEN [result |-> "Ok", calls |-> <<>>, failed_at |-> 0]
    ELSE IF ~steps[i].configured
    THEN run_steps_no_abort(steps, i + 1)
    ELSE IF steps[i].result # "Ok"
    THEN [run_steps_no_abort(steps, i + 1) EXCEPT
              !.calls = steps[i].calls \o @,
              !.result = steps[i].result, !.failed_at = i]
    ELSE [run_steps_no_abort(steps, i + 1) EXCEPT !.calls = steps[i].calls \o @]

RECURSIVE run_steps(_, _)
(* the steps from step i on, each followed by `?`: a step that is not      *)
(* configured does nothing, and the first step that returns an error ends  *)
(* the cycle.  failed_at is the step that returned the error, or 0.        *)
run_steps(steps, i) ==
    IF i > Len(steps)
    THEN [result |-> "Ok", calls |-> <<>>, failed_at |-> 0]
    ELSE IF ~steps[i].configured
    THEN run_steps(steps, i + 1)
    ELSE IF steps[i].result # "Ok"
    THEN [result |-> steps[i].result, calls |-> steps[i].calls,
          failed_at |-> i]
    ELSE [run_steps(steps, i + 1) EXCEPT !.calls = steps[i].calls \o @]

(* profile selection that looks at the snapshot only *)
selected_profile_config_snapshot_only(report, force_mode) ==
    IF \/ report.batteries = <<>>
       \/ \E i \in 1..Len(report.batteries) : report.batteries[i].ac_connected
    THEN "charger" ELSE "battery"

(* engine.rs 60-92: which profile of the configuration is selected *)
selected_profile_config(report, force_mode) ==
    IF force_mode.some
    THEN IF force_mode.val = "Powersave" THEN "battery" ELSE "charger"
    ELSE LET on_ac_power ==
                 IF report.batteries = <<>> THEN TRUE
                 ELSE \E i \in 1..Len(report.batteries) :
                          report.batteries[i].ac_connected
         IN  IF on_ac_power THEN "charger" ELSE "battery"

(* the threshold step that turns a failure of the controller, or an       *)
(* invalid pair, into an error of the cycle                                *)
battery_charge_thresholds_step_propagating(outcome) ==
    IF outcome \in {"none", "Ok"} THEN "Ok" ELSE "ControlError"

(* engine.rs 162-178: what the battery threshold step contributes to the   *)
(* result of the cycle, outcome being "none" (not configured), "invalid"   *)
(* (the pair fails the check of line 167) or the result kind of            *)
(* battery::set_battery_charge_thresholds: every arm only logs             *)
battery_charge_thresholds_step(outcome) ==
    IF outcome = "none" THEN "Ok"
    ELSE IF outcome = "invalid" THEN "Ok"
    ELSE IF outcome = "Ok" THEN "Ok"
    ELSE "Ok"

(* a cycle that runs the auto-turbo transition of the selected profile     *)
(* even when it returned before the turbo step                             *)
determine_and_apply_settings_eager_statics(report, cfg, force_mode, env) ==
    LET h == env.host
        override_governor == get_governor_override(env.governor_override)
        selected == selected_profile_config(report, force_mode)
        p == cfg[selected]
        auto == p.turbo.some /\ p.turbo.val = "Auto" /\ p.enable_auto_turbo
        m == manage_auto_turbo(report, p, h, env.previous_state,
                               env.initialized)
        steps ==
            << try_apply_feature(override_governor.some, "set_governor",
                   override_governor.val,
                   set_governor(override_governor.val, h)),
               apply_profile_governor(p.governor.some, p.governor.val,
                   set_governor(p.governor.val, h)),
               IF auto
               THEN Step(TRUE, m.calls, m.result)
               ELSE try_apply_feature(p.turbo.some, "set_turbo", p.turbo.val,
                        set_turbo(p.turbo.val, h)),
               try_apply_feature(p.epp.some, "set_epp", p.epp.val,
                   set_epp(p.epp.val, h)),
               try_apply_feature(p.epb.some, "set_epb", p.epb.val,
                   set_epb(p.epb.val, h)),
               try_apply_feature(p.min_freq_mhz.some, "set_min_frequency",
                   ToString(p.min_freq_mhz.val),
                   set_min_frequency(p.min_freq_mhz.val, h)),
               try_apply_feature(p.max_freq_mhz.some, "set_max_frequency",
                   ToString(p.max_freq_mhz.val),
                   set_max_frequency(p.max_freq_mhz.val, h)),
               try_apply_feature(p.platform_profile.some,
                   "set_platform_profile", p.platform_profile.val,
                   set_platform_profile(p.platform_profile.val, h)) >>
        r == run_steps(steps, 1)
        auto_reached == auto
        thresholds == p.battery_charge_thresholds
        thresholds_reached == r.result = "Ok" /\ thresholds.some
        thresholds_valid ==
            /\ thresholds.val.start < thresholds.val.stop
            /\ thresholds.val.stop <= 100
        t == set_battery_charge_thresholds(env.power_supply,
                 thresholds.val.start, thresholds.val.stop, env.ios)
        thresholds_outcome == IF ~thresholds_reached THEN "none"
                              ELSE IF ~thresholds_valid THEN "invalid"
                              ELSE t.kind
    IN  [result |-> IF r.result = "Ok"
                    THEN battery_charge_thresholds_step(thresholds_outcome)
                    ELSE r.result,
         selected |-> IF r.failed_at = 1 THEN "none" ELSE selected,
         calls |-> r.calls,
         decision |-> IF auto_reached THEN m.decision ELSE NoDecision,
         previous_state |-> IF auto_reached THEN m.previous_state
                            ELSE env.previous_state,
         initialized |-> IF auto_reached THEN m.initialized
                         ELSE env.initialized,
         thresholds |-> thresholds_outcome,
         threshold_log |-> IF thresholds_reached /\ thresholds_valid
                           THEN t.log ELSE <<>>,
         devices |-> IF thresholds_reached /\ thresholds_valid
                     THEN t.devices ELSE env.power_supply.devices]

(* engine.rs 42-183.  env = [host, governor_override, previous_state,      *)
(* initialized, power_supply, ios] is what the cycle reads besides its     *)
(* arguments; the result carries the result kind, the profile selected     *)
(* ("none" if the cycle returned before selecting), the primitives invoked *)
(* in order, the auto-turbo decision, the statics and the threshold files  *)
(* after the cycle.  The steps are: 1 the governor override, 2 governor,   *)
(* 3 turbo, 4 EPP, 5 EPB, 6 min frequency, 7 max frequency, 8 platform     *)
(* profile; the battery thresholds come last and return no error.          *)
determine_and_apply_settings(report, cfg, force_mode, env) ==
    LET h == env.host
        override_governor == get_governor_override(env.governor_override)
        selected == selected_profile_config(report, force_mode)
        p == cfg[selected]
        auto == p.turbo.some /\ p.turbo.val = "Auto" /\ p.enable_auto_turbo
        m == manage_auto_turbo(report, p, h, env.previous_state,
                               env.initialized)
        steps ==
            << try_apply_feature(override_governor.some, "set_governor",
                   override_governor.val,
                   set_governor(override_governor.val, h)),
               apply_profile_governor(p.governor.some, p.governor.val,
                   set_governor(p.governor.val, h)),
               IF auto
               THEN Step(TRUE, m.calls, m.result)
               ELSE try_apply_feature(p.turbo.some, "set_turbo", p.turbo.val,
                        set_turbo(p.turbo.val, h)),
               try_apply_feature(p.epp.some, "set_epp", p.epp.val,
                   set_epp(p.epp.val, h)),
               try_apply_feature(p.epb.some, "set_epb", p.epb.val,
                   set_epb(p.epb.val, h)),
               try_apply_feature(p.min_freq_mhz.some, "set_min_frequency",
                   ToString(p.min_freq_mhz.val),
                   set_min_frequency(p.min_freq_mhz.val, h)),
               try_apply_feature(p.max_freq_mhz.some, "set_max_frequency",
                   ToString(p.max_freq_mhz.val),
                   set_max_frequency(p.max_freq_mhz.val, h)),
               try_apply_feature(p.platform_profile.some,
                   "set_platform_profile", p.platform_profile.val,
                   set_platform_profile(p.platform_profile.val, h)) >>
        r == run_steps(steps, 1)
        auto_reached == auto /\ r.failed_at \notin {1, 2}
        thresholds == p.battery_charge_thresholds
        thresholds_reached == r.result = "Ok" /\ thresholds.some
        thresholds_valid ==
            /\ thresholds.val.start < thresholds.val.stop
            /\ thresholds.val.stop <= 100
        t == set_battery_charge_thresholds(env.power_supply,
                 thresholds.val.start, thresholds.val.stop, env.ios)
        thresholds_outcome == IF ~thresholds_reached THEN "none"
                              ELSE IF ~thresholds_valid THEN "invalid"
                              ELSE t.kind
    IN  [result |-> IF r.result = "Ok"
                    THEN battery_charge_thresholds_step(thresholds_outcome)
                    ELSE r.result,
         selected |-> IF r.failed_at = 1 THEN "none" ELSE selected,
         calls |-> r.calls,
         decision |-> IF auto_reached THEN m.decision ELSE NoDecision,
         previous_state |-> IF auto_reached THEN m.previous_state
                            ELSE env.previous_state,
         initialized |-> IF auto_reached THEN m.initialized
                         ELSE env.initialized,
         thresholds |-> thresholds_outcome,
         threshold_log |-> IF thresholds_reached /\ thresholds_valid
                           THEN t.log ELSE <<>>,
         devices |-> IF thresholds_reached /\ thresholds_valid
                     THEN t.devices ELSE env.power_supply.devices]

----------------------------------------------------------------------------
(* Configurations (config/types.rs) and machines.                          *)

(* config/types.rs 59-74: ProfileConfig::default *)
ProfileConfig_default ==
    [governor |-> Some("schedutil"), turbo |-> Some("Auto"),
     epp |-> NoString, epb |-> NoString,
     min_freq_mhz |-> None, max_freq_mhz |-> None,
     platform_profile |-> NoString,
     turbo_auto_settings |-> Some(TurboAutoSettings_default),
     enable_auto_turbo |-> TRUE,
     battery_charge_thresholds |-> NoThresholds]

(* config/types.rs 260-292: DaemonConfig::default *)
DaemonConfig_default ==
    [poll_interval_sec |-> 5, adaptive_interval |-> FALSE,
     min_poll_interval_sec |-> 1, max_poll_interval_sec |-> 30,
     throttle_on_battery |-> TRUE]

(* config/types.rs 77-85: AppConfig *)
AppConfig(charger, battery, daemon_config) ==
    [charger |-> charger, battery |-> battery, daemon |-> daemon_config]

AllOutcome(kind) ==
    [governor |-> kind, turbo |-> kind, epp |-> kind, epb |-> kind,
     min_freq |-> kind, max_freq |-> kind, platform_profile |-> kind]

AllGovernors == {"performance", "powersave", "schedutil"}

Host(governors_known, available_governors, outcome) ==
    [governors_known |-> governors_known,
     available_governors |-> available_governors, outcome |-> outcome]

(* a machine on which every primitive succeeds *)
HostAllOk == Host(TRUE, AllGovernors, AllOutcome("Ok"))

----------------------------------------------------------------------------
(* What is observed of the engine.                                         *)

NoEngineCall ==
    [called |-> FALSE, report |-> SystemReport(<<>>, <<>>, None, 0),
     force_mode |-> NoString, governor_override |-> NoString,
     result |-> "none", selected |-> "none",
     calls |-> <<>>, decision |-> NoDecision, thresholds |-> "none",
     threshold_log |-> <<>>]

(* The usages of the hysteresis scenario, and its monitor: while the       *)
(* auto-turbo decisions taken since the start are a prefix of the scenario *)
(* (these average usages in this order, thresholds 70/30, no temperature   *)
(* at or above the threshold), the monitor holds the decisions.            *)
ScenarioUsages == <<80 * Milli, 50 * Milli, 50 * Milli, 20 * Milli>>

ScenarioStart == [on |-> TRUE, states |-> <<>>]

ScenarioOff == [on |-> FALSE, states |-> <<>>]

TemperatureBreach(d) ==
    d.cpu_temp.some /\ d.cpu_temp.val >= d.turbo_settings.temp_threshold_high

ScenarioStep(sc, d) ==
    IF ~d.decided THEN sc
    ELSE IF /\ sc.on /\ Len(sc.states) < Len(ScenarioUsages)
            /\ d.turbo_settings.load_threshold_high = 70 * Milli
            /\ d.turbo_settings.load_threshold_low = 30 * Milli
            /\ ~TemperatureBreach(d)
            /\ d.avg_cpu_usage = Some(ScenarioUsages[Len(sc.states) + 1])
    THEN [on |-> TRUE, states |-> Append(sc.states, d.enable_turbo)]
    ELSE ScenarioOff

----------------------------------------------------------------------------
(* The daemon (daemon.rs): the system history, the classification of the   *)
(* system state and the main loop.  Instants are seconds on a clock.       *)

(* daemon.rs 176-191: SystemHistory::default, created at instant now *)
SystemHistory_default(now) ==
    [cpu_usage_history |-> <<>>, temperature_history |-> <<>>,
     last_user_activity |-> now,
     last_battery_percentage |-> None, last_battery_timestamp |-> None,
     battery_discharge_rate |-> None,
     state_durations |-> <<>>,
     last_state_change |-> now,
     current_state |-> "Unknown",
     last_computed_interval |-> None]

Abs(x) == IF x < 0 THEN -x ELSE x

RECURSIVE sum_of_changes(_, _)
(* daemon.rs 323-326, 337-340: the sum of |h[i] - h[i-1]| from i on *)
sum_of_changes(h, i) ==
    IF i > Len(h) THEN 0
    ELSE Abs(h[i] - h[i - 1]) + sum_of_changes(h, i + 1)

RECURSIVE SeqSum(_)
SeqSum(h) == IF h = <<>> THEN 0 ELSE Head(h) + SeqSum(Tail(h))

(* daemon.rs 318-329 *)
get_cpu_volatility(self) ==
    IF Len(self.cpu_usage_history) < 2 THEN 0
    ELSE sum_of_changes(self.cpu_usage_history, 2)
             \div (Len(self.cpu_usage_history) - 1)

(* daemon.rs 332-343 *)
get_temperature_volatility(self) ==
    IF Len(self.temperature_history) < 2 THEN 0
    ELSE sum_of_changes(self.temperature_history, 2)
             \div (Len(self.temperature_history) - 1)

(* daemon.rs 346-355 *)
is_system_idle(self) ==
    IF self.cpu_usage_history = <<>> THEN FALSE
    ELSE /\ SeqSum(self.cpu_usage_history) \div Len(self.cpu_usage_history)
                < 10 * Milli
         /\ get_cpu_volatility(self) < 5 * Milli

(* daemon.rs 621-662 without the return for a machine with no batteries,   *)
(* so that such a snapshot reaches the temperature and load checks         *)
determine_system_state_falling_through(report, history) ==
    IF report.batteries # <<>>
    THEN IF Head(report.batteries).ac_connected THEN "OnAC" ELSE "OnBattery"
    ELSE IF /\ report.average_temperature_celsius.some
            /\ report.average_temperature_celsius.val > 80 * Milli
    THEN "HighTemp"
    ELSE IF report.load_avg_1min > 3 * Milli
    THEN "HighLoad"
    ELSE IF is_system_idle(history)
    THEN "Idle"
    ELSE IF report.load_avg_1min < 500
    THEN "LowLoad"
    ELSE "Unknown"

(* daemon.rs 621-662: the branches in the order of the code *)
determine_system_state(report, history) ==
    IF report.batteries # <<>>
    THEN IF Head(report.batteries).ac_connected THEN "OnAC" ELSE "OnBattery"
    ELSE IF report.batteries = <<>>
    THEN "OnAC"
    ELSE IF /\ report.average_temperature_celsius.some
            /\ report.average_temperature_celsius.val > 80 * Milli
    THEN "HighTemp"
    ELSE IF report.load_avg_1min > 3 * Milli
    THEN "HighLoad"
    ELSE IF is_system_idle(history)
    THEN "Idle"
    ELSE IF report.load_avg_1min < 500
    THEN "LowLoad"
    ELSE "Unknown"

(* a window of 5 that drops the arriving sample when it is full *)
push_window_drop_newest(h, x) == IF Len(h) >= 5 THEN h ELSE Append(h, x)

(* VecDeque window of 5: daemon.rs 214-217, 233-236 *)
push_window(h, x) == IF Len(h) >= 5 THEN Append(Tail(h), x) ELSE Append(h, x)

(* state_durations: the entries of the map, as <<state, seconds>> pairs    *)
(* in order of first insertion (daemon.rs 296-300)                         *)
add_duration(durations, state, secs) ==
    IF \E i \in 1..Len(durations) : durations[i][1] = state
    THEN [i \in 1..Len(durations) |->
              IF durations[i][1] = state
              THEN <<state, durations[i][2] + secs>> ELSE durations[i]]
    ELSE Append(durations, <<state, secs>>)

(* SystemHistory::update without the reset of the discharge rate on AC *)
update_rate_kept_on_ac(self, report, now) ==
    LET usage == avg_cpu_usage(report.cpu_cores)
        cpu_history == IF usage.some
                       THEN push_window(self.cpu_usage_history, usage.val)
                       ELSE self.cpu_usage_history
        cpu_activity ==
            /\ usage.some
            /\ \/ usage.val > 20 * Milli
               \/ /\ Len(cpu_history) > 1
                  /\ Abs(usage.val - cpu_history[Len(cpu_history) - 1])
                         > 15 * Milli
        temp == report.average_temperature_celsius
        temp_history == IF temp.some
                        THEN push_window(self.temperature_history, temp.val)
                        ELSE self.temperature_history
        temp_activity ==
            /\ temp.some /\ Len(temp_history) > 1
            /\ temp.val - temp_history[Len(temp_history) - 1] > 5 * Milli
        has_battery == report.batteries # <<>>
        battery == Head(report.batteries)
        reset == has_battery /\ battery.ac_connected
        rate0 == self.battery_discharge_rate
        percentage0 == IF reset THEN None ELSE self.last_battery_percentage
        timestamp0 == IF reset THEN None ELSE self.last_battery_timestamp
        sampled == has_battery /\ battery.capacity_percent.some
        current_percent == battery.capacity_percent.val * Milli
        elapsed_secs == now - timestamp0.val
        percent_change == percentage0.val - current_percent
        rate1 == IF /\ sampled /\ percentage0.some /\ timestamp0.some
                    /\ elapsed_secs >= 30 /\ ~battery.ac_connected
                    /\ percent_change > 0
                 THEN Some(Min2((percent_change * 3600) \div elapsed_secs,
                                100 * Milli))
                 ELSE rate0
        self1 == [self EXCEPT
                    !.cpu_usage_history = cpu_history,
                    !.temperature_history = temp_history,
                    !.battery_discharge_rate = rate1,
                    !.last_battery_percentage =
                        IF sampled THEN Some(current_percent) ELSE percentage0,
                    !.last_battery_timestamp =
                        IF sampled THEN Some(now) ELSE timestamp0]
        new_state == determine_system_state(report, self1)
        changed == new_state # self.current_state
        state_activity == changed /\ new_state \notin {"Idle", "LowLoad"}
        load_activity == report.load_avg_1min > Milli
    IN  [self1 EXCEPT
           !.state_durations =
               IF changed
               THEN add_duration(self.state_durations, self.current_state,
                                 now - self.last_state_change)
               ELSE self.state_durations,
           !.current_state = new_state,
           !.last_state_change = IF changed THEN now
                                 ELSE self.last_state_change,
           !.last_user_activity =
               IF \/ cpu_activity \/ temp_activity
                  \/ state_activity \/ load_activity
               THEN now ELSE self.last_user_activity]

(* daemon.rs 195-315: SystemHistory::update at instant now *)
update(self, report, now) ==
    LET usage == avg_cpu_usage(report.cpu_cores)
        cpu_history == IF usage.some
                       THEN push_window(self.cpu_usage_history, usage.val)
                       ELSE self.cpu_usage_history
        cpu_activity ==
            /\ usage.some
            /\ \/ usage.val > 20 * Milli
               \/ /\ Len(cpu_history) > 1
                  /\ Abs(usage.val - cpu_history[Len(cpu_history) - 1])
                         > 15 * Milli
        temp == report.average_temperature_celsius
        temp_history == IF temp.some
                        THEN push_window(self.temperature_history, temp.val)
                        ELSE self.temperature_history
        temp_activity ==
            /\ temp.some /\ Len(temp_history) > 1
            /\ temp.val - temp_history[Len(temp_history) - 1] > 5 * Milli
        has_battery == report.batteries # <<>>
        battery == Head(report.batteries)
        reset == has_battery /\ battery.ac_connected
        rate0 == IF reset THEN None ELSE self.battery_discharge_rate
        percentage0 == IF reset THEN None ELSE self.last_battery_percentage
        timestamp0 == IF reset THEN None ELSE self.last_battery_timestamp
        sampled == has_battery /\ battery.capacity_percent.some
        current_percent == battery.capacity_percent.val * Milli
        elapsed_secs == now - timestamp0.val
        percent_change == percentage0.val - current_percent
        rate1 == IF /\ sampled /\ percentage0.some /\ timestamp0.some
                    /\ elapsed_secs >= 30 /\ ~battery.ac_connected
                    /\ percent_change > 0
                 THEN Some(Min2((percent_change * 3600) \div elapsed_secs,
                                100 * Milli))
                 ELSE rate0
        self1 == [self EXCEPT
                    !.cpu_usage_history = cpu_history,
                    !.temperature_history = temp_history,
                    !.battery_discharge_rate = rate1,
                    !.last_battery_percentage =
                        IF sampled THEN Some(current_percent) ELSE percentage0,
                    !.last_battery_timestamp =
                        IF sampled THEN Some(now) ELSE timestamp0]
        new_state == determine_system_state(report, self1)
        changed == new_state # self.current_state
        state_activity == changed /\ new_state \notin {"Idle", "LowLoad"}
        load_activity == report.load_avg_1min > Milli
    IN  [self1 EXCEPT
           !.state_durations =
               IF changed
               THEN add_duration(self.state_durations, self.current_state,
                                 now - self.last_state_change)
               ELSE self.state_durations,
           !.current_state = new_state,
           !.last_state_change = IF changed THEN now
                                 ELSE self.last_state_change,
           !.last_user_activity =
               IF \/ cpu_activity \/ temp_activity
                  \/ state_activity \/ load_activity
               THEN now ELSE self.last_user_activity]

(* daemon.rs 358-376 *)
calculate_optimal_interval(self, cfg, on_battery, now) ==
    compute_new([base_interval |-> cfg.daemon.poll_interval_sec,
                 min_interval |-> cfg.daemon.min_poll_interval_sec,
                 max_interval |-> cfg.daemon.max_poll_interval_sec,
                 cpu_volatility |-> get_cpu_volatility(self),
                 temp_volatility |-> get_temperature_volatility(self),
                 battery_discharge_rate |-> self.battery_discharge_rate,
                 last_user_activity |-> now - self.last_user_activity,
                 is_system_idle |-> is_system_idle(self),
                 on_battery |-> on_battery],
                self)

(* what is observed of the last iteration of the loop *)
NoIteration ==
    [collected |-> FALSE, base_interval |-> 0, on_battery |-> FALSE,
     engine_result |-> "none", optimal |-> "none", slept |-> 0,
     steps |-> <<>>]

(* what is observed of the shutdown signal: where the loop was and how     *)
(* many iterations had run when the handler stored the flag                *)
NoShutdown == [requested |-> FALSE, at |-> "none", iterations |-> 0]

(* run_daemon before it is called.  In the loop, at is the position: at    *)
(* the loop condition ("check", line 455), in the body ("body", 456-561)   *)
(* or in the sleep ("sleep", 563-570).                                     *)
DaemonNotStarted ==
    [phase |-> "init", at |-> "check", result |-> "none", running |-> TRUE,
     current_poll_interval |-> 0,
     system_history |-> SystemHistory_default(0),
     iterations |-> 0, last |-> NoIteration, shutdown |-> NoShutdown]

(* a start that does not validate the poll intervals *)
run_daemon_start_unvalidated(d, cfg, now) ==
    [d EXCEPT !.phase = "loop",
              !.current_poll_interval = Max2(cfg.daemon.poll_interval_sec, 1),
              !.system_history = SystemHistory_default(now)]

(* a loop condition that does not read the flag *)
loop_condition_ignoring_flag(d) == TRUE

(* daemon.rs 455: while running.load(..) *)
loop_condition(d) == d.running

(* daemon.rs 455, 573-574: the loop condition is read; the body follows,   *)
(* or "Daemon stopped" and Ok(())                                          *)
run_daemon_check(d) ==
    IF loop_condition(d) THEN [d EXCEPT !.at = "body"]
    ELSE [d EXCEPT !.phase = "stopped", !.result = "Ok"]

(* daemon.rs 563-570: the sleep for the current poll interval *)
run_daemon_sleep(d) ==
    [d EXCEPT !.at = "check", !.last.slept = d.current_poll_interval,
              !.last.steps = Append(@, "sleep")]

(* daemon.rs 430-433: the handler of the shutdown signal *)
shutdown_handler(d) ==
    [d EXCEPT !.running = FALSE,
              !.shutdown = [requested |-> TRUE, at |-> d.at,
                            iterations |-> d.iterations]]

(* daemon.rs 393-453: run_daemon up to the main loop, entered at now *)
run_daemon_start(d, cfg, now) ==
    IF validate_poll_intervals(cfg.daemon.min_poll_interval_sec,
                               cfg.daemon.max_poll_interval_sec)
    THEN [d EXCEPT !.phase = "loop",
                   !.current_poll_interval =
                       Max2(cfg.daemon.poll_interval_sec, 1),
                   !.system_history = SystemHistory_default(now)]
    ELSE [d EXCEPT !.phase = "stopped", !.result = "Err"]

(* daemon.rs 505-518: the step of the current interval toward the optimal *)
step_toward(current_poll_interval, optimal_interval) ==
    IF optimal_interval > current_poll_interval
    THEN (current_poll_interval + optimal_interval) \div 2
    ELSE IF optimal_interval < current_poll_interval
    THEN current_poll_interval
         - Max2((current_poll_interval - optimal_interval) \div 2, 1)
    ELSE current_poll_interval

(* an iteration that returns the error of the policy engine from the      *)
(* daemon instead of logging it                                            *)
run_daemon_iteration_engine_fatal(d, cfg, collected, engine_result, now) ==
    IF ~collected.ok
    THEN [d EXCEPT !.iterations = d.iterations + 1, !.at = "sleep",
                   !.last = NoIteration]
    ELSE
    LET report == collected.report
        history == update(d.system_history, report, now)
        on_battery == /\ report.batteries # <<>>
                      /\ ~Head(report.batteries).ac_connected
        optimal == calculate_optimal_interval(history, cfg, on_battery, now)
        stepped == clamp(step_toward(d.current_poll_interval, optimal.value),
                         cfg.daemon.min_poll_interval_sec,
                         cfg.daemon.max_poll_interval_sec)
        fixed == IF cfg.daemon.throttle_on_battery /\ on_battery
                 THEN Min2(Max2(cfg.daemon.poll_interval_sec, 1) * 2,
                           cfg.daemon.max_poll_interval_sec)
                 ELSE Max2(cfg.daemon.poll_interval_sec, 1)
        observed == [collected |-> TRUE,
                     base_interval |-> cfg.daemon.poll_interval_sec,
                     on_battery |-> on_battery,
                     engine_result |-> engine_result,
                     optimal |-> IF cfg.daemon.adaptive_interval
                                 THEN optimal.kind ELSE "none",
                     slept |-> 0,
                     steps |-> <<"update", "apply", "interval">>]
    IN  IF engine_result # "Ok"
        THEN [d EXCEPT !.system_history = history,
                       !.running = FALSE,
                       !.phase = "stopped", !.result = "Err",
                       !.iterations = d.iterations + 1,
                       !.last = [observed EXCEPT
                                    !.optimal = "none",
                                    !.steps = <<"update", "apply">>]]
        ELSE IF ~cfg.daemon.adaptive_interval
        THEN [d EXCEPT !.system_history = history,
                       !.current_poll_interval = fixed,
                       !.iterations = d.iterations + 1, !.at = "sleep",
                       !.last = observed]
        ELSE IF optimal.kind = "Ok"
        THEN [d EXCEPT !.system_history =
                           [history EXCEPT !.last_computed_interval =
                                               Some(optimal.value)],
                       !.current_poll_interval = stepped,
                       !.iterations = d.iterations + 1, !.at = "sleep",
                       !.last = observed]
        ELSE IF optimal.kind = "Err"
        THEN [d EXCEPT !.system_history = history,
                       !.running = FALSE,
                       !.phase = "stopped", !.result = "Ok",
                       !.iterations = d.iterations + 1,
                       !.last = observed]
        ELSE [d EXCEPT !.system_history = history,
                       !.phase = "panicked",
                       !.iterations = d.iterations + 1,
                       !.last = observed]

(* an iteration that falls back to the configured poll interval when the   *)
(* snapshot cannot be collected                                            *)
run_daemon_iteration_failure_resets(d, cfg, collected, engine_result, now) ==
    IF ~collected.ok
    THEN [d EXCEPT !.iterations = d.iterations + 1, !.at = "sleep",
                   !.current_poll_interval =
                       Max2(cfg.daemon.poll_interval_sec, 1),
                   !.last = NoIteration]
    ELSE
    LET report == collected.report
        history == update(d.system_history, report, now)
        on_battery == /\ report.batteries # <<>>
                      /\ ~Head(report.batteries).ac_connected
        optimal == calculate_optimal_interval(history, cfg, on_battery, now)
        stepped == clamp(step_toward(d.current_poll_interval, optimal.value),
                         cfg.daemon.min_poll_interval_sec,
                         cfg.daemon.max_poll_interval_sec)
        fixed == IF cfg.daemon.throttle_on_battery /\ on_battery
                 THEN Min2(Max2(cfg.daemon.poll_interval_sec, 1) * 2,
                           cfg.daemon.max_poll_interval_sec)
                 ELSE Max2(cfg.daemon.poll_interval_sec, 1)
        observed == [collected |-> TRUE,
                     base_interval |-> cfg.daemon.poll_interval_sec,
                     on_battery |-> on_battery,
                     engine_result |-> engine_result,
                     optimal |-> IF cfg.daemon.adaptive_interval
                                 THEN optimal.kind ELSE "none",
                     slept |-> 0,
                     steps |-> <<"update", "apply", "interval">>]
    IN  IF ~cfg.daemon.adaptive_interval
        THEN [d EXCEPT !.system_history = history,
                       !.current_poll_interval = fixed,
                       !.iterations = d.iterations + 1, !.at = "sleep",
                       !.last = observed]
        ELSE IF optimal.kind = "Ok"
        THEN [d EXCEPT !.system_history =
                           [history EXCEPT !.last_computed_interval =
                                               Some(optimal.value)],
                       !.current_poll_interval = stepped,
                       !.iterations = d.iterations + 1, !.at = "sleep",
                       !.last = observed]
        ELSE IF optimal.kind = "Err"
        THEN [d EXCEPT !.system_history = history,
                       !.running = FALSE,
                       !.phase = "stopped", !.result = "Ok",
                       !.iterations = d.iterations + 1,
                       !.last = observed]
        ELSE [d EXCEPT !.system_history = history,
                       !.phase = "panicked",
                       !.iterations = d.iterations + 1,
                       !.last = observed]

(* an iteration that takes the machine to be on battery whenever the       *)
(* snapshot has a battery                                                  *)
run_daemon_iteration_battery_present(d, cfg, collected, engine_result, now) ==
    IF ~collected.ok
    THEN [d EXCEPT !.iterations = d.iterations + 1, !.at = "sleep",
                   !.last = NoIteration]
    ELSE
    LET report == collected.report
        history == update(d.system_history, report, now)
        on_battery == report.batteries # <<>>
        optimal == calculate_optimal_interval(history, cfg, on_battery, now)
        stepped == clamp(step_toward(d.current_poll_interval, optimal.value),
                         cfg.daemon.min_poll_interval_sec,
                         cfg.daemon.max_poll_interval_sec)
        fixed == IF cfg.daemon.throttle_on_battery /\ on_battery
                 THEN Min2(Max2(cfg.daemon.poll_interval_sec, 1) * 2,
                           cfg.daemon.max_poll_interval_sec)
                 ELSE Max2(cfg.daemon.poll_interval_sec, 1)
        observed == [collected |-> TRUE,
                     base_interval |-> cfg.daemon.poll_interval_sec,
                     on_battery |-> on_battery,
                     engine_result |-> engine_result,
                     optimal |-> IF cfg.daemon.adaptive_interval
                                 THEN optimal.kind ELSE "none",
                     slept |-> 0,
                     steps |-> <<"update", "apply", "interval">>]
    IN  IF ~cfg.daemon.adaptive_interval
        THEN [d EXCEPT !.system_history = history,
                       !.current_poll_interval = fixed,
                       !.iterations = d.iterations + 1, !.at = "sleep",
                       !.last = observed]
        ELSE IF optimal.kind = "Ok"
        THEN [d EXCEPT !.system_history =
                           [history EXCEPT !.last_computed_interval =
                                               Some(optimal.value)],
                       !.current_poll_interval = stepped,
                       !.iterations = d.iterations + 1, !.at = "sleep",
                       !.last = observed]
        ELSE IF optimal.kind = "Err"
        THEN [d EXCEPT !.system_history = history,
                       !.running = FALSE,
                       !.phase = "stopped", !.result = "Ok",
                       !.iterations = d.iterations + 1,
                       !.last = observed]
        ELSE [d EXCEPT !.system_history = history,
                       !.phase = "panicked",
                       !.iterations = d.iterations + 1,
                       !.last = observed]

(* daemon.rs 456-561: the body of one iteration of the main loop at        *)
(* instant now, the engine having returned engine_result for the snapshot. *)
(* collected is the result of collect_system_report.  The body is followed *)
(* by the sleep, except where it breaks out of the loop (524).             *)
run_daemon_iteration(d, cfg, collected, engine_result, now) ==
    IF ~collected.ok
    THEN [d EXCEPT !.iterations = d.iterations + 1, !.at = "sleep",
                   !.last = NoIteration]
    ELSE
    LET report == collected.report
        history == update(d.system_history, report, now)
        on_battery == /\ report.batteries # <<>>
                      /\ ~Head(report.batteries).ac_connected
        optimal == calculate_optimal_interval(history, cfg, on_battery, now)
        stepped == clamp(step_toward(d.current_poll_interval, optimal.value),
                         cfg.daemon.min_poll_interval_sec,
                         cfg.daemon.max_poll_interval_sec)
        fixed == IF cfg.daemon.throttle_on_battery /\ on_battery
                 THEN Min2(Max2(cfg.daemon.poll_interval_sec, 1) * 2,
                           cfg.daemon.max_poll_interval_sec)
                 ELSE Max2(cfg.daemon.poll_interval_sec, 1)
        observed == [collected |-> TRUE,
                     base_interval |-> cfg.daemon.poll_interval_sec,
                     on_battery |-> on_battery,
                     engine_result |-> engine_result,
                     optimal |-> IF cfg.daemon.adaptive_interval
                                 THEN optimal.kind ELSE "none",
                     slept |-> 0,
                     steps |-> <<"update", "apply", "interval">>]
    IN  IF ~cfg.daemon.adaptive_interval
        THEN [d EXCEPT !.system_history = history,
                       !.current_poll_interval = fixed,
                       !.iterations = d.iterations + 1, !.at = "sleep",
                       !.last = observed]
        ELSE IF optimal.kind = "Ok"
        THEN [d EXCEPT !.system_history =
                           [history EXCEPT !.last_computed_interval =
                                               Some(optimal.value)],
                       !.current_poll_interval = stepped,
                       !.iterations = d.iterations + 1, !.at = "sleep",
                       !.last = observed]
        ELSE IF optimal.kind = "Err"
        THEN [d EXCEPT !.system_history = history,
                       !.running = FALSE,
                       !.phase = "stopped", !.result = "Ok",
                       !.iterations = d.iterations + 1,
                       !.last = observed]
        ELSE [d EXCEPT !.system_history = history,
                       !.phase = "panicked",
                       !.iterations = d.iterations + 1,
                       !.last = observed]

----------------------------------------------------------------------------
(* The pure-function harness: Init draws the arguments, one action applies *)
(* the function and records what it returned.                              *)

NotApplied == [applied |-> FALSE, out |-> <<>>]

(* the variables of the other components, held at rest by a specification *)
(* of one component                                                        *)
HarnessUnused == args = <<>> /\ ret = NotApplied

NoThresholdCall ==
    [called |-> FALSE, start |-> 0, stop |-> 0, kind |-> "none",
     probed |-> <<>>, log |-> <<>>]

BatteryUnused ==
    /\ power_supply = [exists |-> FALSE, readable |-> FALSE, devices |-> <<>>]
    /\ threshold_call = NoThresholdCall

EngineUnused ==
    /\ host = HostAllOk
    /\ config = AppConfig(ProfileConfig_default, ProfileConfig_default,
                          DaemonConfig_default)
    /\ governor_override = NoString
    /\ PREVIOUS_TURBO_STATE = FALSE
    /\ TURBO_STATE_INITIALIZED = FALSE
    /\ engine_call = NoEngineCall
    /\ scenario = ScenarioStart

(* a watcher without events, on a file that stays as it is *)
NoWatcherCall ==
    [called |-> FALSE, at |-> "idle", seen |-> <<>>, should_reload |-> FALSE,
     result |-> "None", reloads |-> 0]

WatcherUnused ==
    /\ watcher = [rx |-> <<>>, last_event_time |-> 0]
    /\ notify = [now |-> 0, exists |-> TRUE, loadable |-> TRUE,
                 burst |-> <<>>]
    /\ watcher_call = NoWatcherCall

DaemonUnused ==
    /\ daemon = DaemonNotStarted
    /\ config_file = DaemonConfig_default
    /\ config_age = 0
    /\ clock = 0
    /\ WatcherUnused

Applied(v) == [applied |-> TRUE, out |-> v]

(* idle durations probed: the whole linear ramp, and every minute boundary *)
(* of the logarithmic branch up to MaxIdleMinutes, and a very long idle    *)
MaxIdleMinutes == 17

IdleSecsDomain ==
    (0..130) \cup {60 * k + d : k \in 2..MaxIdleMinutes, d \in {-1, 0, 1}}
             \cup {U64Max}

InitIdle ==
    /\ args \in {[s1 |-> a, s2 |-> b] : a \in IdleSecsDomain, b \in IdleSecsDomain}
    /\ args.s1 <= args.s2
    /\ ret = NotApplied
    /\ BatteryUnused
    /\ EngineUnused
    /\ DaemonUnused

ApplyIdleMultiplier ==
    /\ ~ret.applied
    /\ ret' = Applied([m1 |-> idle_multiplier(args.s1),
                       m2 |-> idle_multiplier(args.s2)])
    /\ UNCHANGED <<args, battery_vars, engine_vars, daemon_vars>>

NextIdle == ApplyIdleMultiplier

SpecIdle == InitIdle /\ [][NextIdle]_vars

(* C9: idle_multiplier is non-decreasing in idle seconds, is exactly 1.0   *)
(* at 0 seconds, and never exceeds 5.0.                                    *)
C9_IdleMultiplierMonotoneCapped ==
    ret.applied =>
        /\ ret.out.m1 <= ret.out.m2
        /\ (args.s1 = 0 => ret.out.m1 = Milli)
        /\ ret.out.m1 <= 5000 /\ ret.out.m2 <= 5000

(* the 119 s / 120 s switch from the linear to the logarithmic branch *)
C9_Witness ==
    /\ ret.applied /\ args.s1 = 119 /\ args.s2 = 120
    /\ ret.out.m1 < ret.out.m2 /\ ret.out.m2 = 2 * Milli

----------------------------------------------------------------------------
(* The interval computation applied to drawn parameters and cached value.  *)

IntervalParamsDomain ==
    [base_interval : {0, 1, 5, 60, U64Max},
     min_interval : {0, 1, 5, 30},
     max_interval : {0, 1, 5, 30, U64Max},
     cpu_volatility : {10000, 10001},
     temp_volatility : {2000, 2001},
     battery_discharge_rate : {None, Some(10000), Some(10001), Some(20001)},
     last_user_activity : {0, 1, 119, 120, 960},
     is_system_idle : BOOLEAN,
     on_battery : BOOLEAN]

CachedDomain == {None, Some(0), Some(1), Some(7), Some(U64Max)}

InitInterval ==
    /\ args \in [params : IntervalParamsDomain,
                 system_history : [last_computed_interval : CachedDomain]]
    /\ ret = NotApplied
    /\ BatteryUnused
    /\ EngineUnused
    /\ DaemonUnused

ApplyComputeNew ==
    /\ ~ret.applied
    /\ ret' = Applied(compute_new(args.params, args.system_history))
    /\ UNCHANGED <<args, battery_vars, engine_vars, daemon_vars>>

NextInterval == ApplyComputeNew

SpecInterval == InitInterval /\ [][NextInterval]_vars

(* C1: compute_new returns a configuration error whenever max < min, and   *)
(* otherwise returns a value within [max(min,1), max].                     *)
C1_IntervalWithinBounds ==
    ret.applied =>
        IF args.params.max_interval < args.params.min_interval
        THEN ret.out.kind = "Err"
        ELSE /\ ret.out.kind = "Ok"
             /\ ret.out.value >= Max2(args.params.min_interval, 1)
             /\ ret.out.value <= args.params.max_interval

(* what compute_new returns when x is the interval that goes into the      *)
(* clamp of daemon.rs 125-126                                              *)
FinishedInterval(x) ==
    LET lo == Max2(args.params.min_interval, 1)
        hi == args.params.max_interval
        cached == args.system_history.last_computed_interval
        new_interval == clamp(x, lo, hi)
    IN  clamp(IF cached.some
              THEN (cached.val * 7 + new_interval * 3) \div 10
              ELSE new_interval,
              lo, hi)

(* the interval that comes out of the battery and idle steps *)
AfterMultipliers == idle_adjusted(args.params, battery_adjusted(args.params))

(* C28: a successful interval computation returns what the clamp and the   *)
(* blend make of half the interval that came out of the battery and idle   *)
(* steps (integer division) when the usage volatility exceeds 10 or the    *)
(* temperature volatility exceeds 2, whether or not those steps changed    *)
(* the interval, and of that interval itself when neither exceeds.         *)
C28_VolatilityHalves ==
    ret.applied /\ ret.out.kind = "Ok" =>
        ret.out.value =
            FinishedInterval(
                IF \/ args.params.cpu_volatility > 10 * Milli
                   \/ args.params.temp_volatility > 2 * Milli
                THEN AfterMultipliers \div 2
                ELSE AfterMultipliers)

(* only the usage is volatile, both multipliers were applied, and neither  *)
(* the bounds nor a cached interval hide the halving                       *)
C28_Witness ==
    /\ ret.applied /\ ret.out.kind = "Ok"
    /\ args.params.cpu_volatility > 10 * Milli
    /\ args.params.temp_volatility <= 2 * Milli
    /\ args.params.on_battery /\ args.params.is_system_idle
    /\ battery_adjusted(args.params) > args.params.base_interval
    /\ AfterMultipliers > battery_adjusted(args.params)
    /\ ~args.system_history.last_computed_interval.some
    /\ ret.out.value = AfterMultipliers \div 2
    /\ ret.out.value > Max2(args.params.min_interval, 1)
    /\ ret.out.value < args.params.max_interval

----------------------------------------------------------------------------
(* Specification of the history: a SystemHistory as created at daemon.rs   *)
(* 452, updated with the snapshot of each iteration (daemon.rs 466).  args *)
(* is the sequence of the updates made so far, each with its snapshot and  *)
(* its instant in seconds; ret.out is the history after them.              *)

MaxUpdates == 6

(* snapshots and the seconds elapsed since the update before: usage of one *)
(* core, of several cores with a missing reading, of no core and of a core *)
(* without reading; temperature known or not; a battery that discharges by *)
(* one percent, by thirty, that is on AC, that has no capacity reading,    *)
(* and no battery                                                          *)
HistoryInputs ==
    { [report |-> SystemReport(<<BatteryInfo(FALSE, Some(80))>>,
                      <<CpuCoreInfo(Some(10 * Milli))>>, Some(50 * Milli), 400),
       elapsed |-> 40],
      [report |-> SystemReport(<<BatteryInfo(FALSE, Some(79))>>,
                      <<CpuCoreInfo(Some(40 * Milli))>>, None, 400),
       elapsed |-> 40],
      [report |-> SystemReport(<<BatteryInfo(TRUE, Some(80))>>,
                      <<>>, Some(60 * Milli), 400),
       elapsed |-> 40],
      [report |-> SystemReport(<<>>,
                      <<CpuCoreInfo(None)>>, Some(85 * Milli), 3500),
       elapsed |-> 10],
      [report |-> SystemReport(<<BatteryInfo(FALSE, Some(50))>>,
                      <<CpuCoreInfo(Some(10 * Milli)), CpuCoreInfo(None),
                        CpuCoreInfo(Some(30 * Milli))>>, Some(60 * Milli), 400),
       elapsed |-> 10],
      [report |-> SystemReport(<<BatteryInfo(FALSE, None)>>,
                      <<CpuCoreInfo(Some(40 * Milli))>>, Some(50 * Milli), 400),
       elapsed |-> 40] }

InitHistory ==
    /\ args = <<>>
    /\ ret = [applied |-> FALSE, out |-> SystemHistory_default(0)]
    /\ BatteryUnused
    /\ EngineUnused
    /\ DaemonUnused

(* one update of the history, at the instant the snapshot was taken *)
UpdateHistory ==
    /\ Len(args) < MaxUpdates
    /\ \E input \in HistoryInputs :
           LET now == (IF args = <<>> THEN 0 ELSE args[Len(args)].now)
                          + input.elapsed
           IN  /\ args' = Append(args, [report |-> input.report, now |-> now])
               /\ ret' = Applied(update(ret.out, input.report, now))
    /\ UNCHANGED <<battery_vars, engine_vars, daemon_vars>>

NextHistory == UpdateHistory

SpecHistory == InitHistory /\ [][NextHistory]_vars

(* the last n elements of s *)
LastN(s, n) == IF Len(s) <= n THEN s ELSE SubSeq(s, Len(s) - n + 1, Len(s))

RECURSIVE UsageReadings(_)
(* the average usages of the updates that had one, in arrival order *)
UsageReadings(log) ==
    IF log = <<>> THEN <<>>
    ELSE LET cores == log[Len(log)].report.cpu_cores
             readings == { i \in 1..Len(cores) : cores[i].usage_percent.some }
             rest == UsageReadings(SubSeq(log, 1, Len(log) - 1))
         IN  IF readings = {} THEN rest
             ELSE Append(rest, avg_cpu_usage(cores).val)

RECURSIVE TemperatureReadings(_)
(* the temperatures of the updates that had one, in arrival order *)
TemperatureReadings(log) ==
    IF log = <<>> THEN <<>>
    ELSE LET temp == log[Len(log)].report.average_temperature_celsius
             rest == TemperatureReadings(SubSeq(log, 1, Len(log) - 1))
         IN  IF temp.some THEN Append(rest, temp.val) ELSE rest

(* C26: after any sequence of updates the CPU-usage window is the last     *)
(* five, in arrival order, of the average usages of the snapshots that had *)
(* a usage reading, and the temperature window the last five of the        *)
(* temperatures of the snapshots that had one: at most five samples, the   *)
(* oldest evicted first, nothing appended for a snapshot without reading.  *)
C26_WindowsOfFive ==
    /\ Len(ret.out.cpu_usage_history) <= 5
    /\ Len(ret.out.temperature_history) <= 5
    /\ ret.out.cpu_usage_history = LastN(UsageReadings(args), 5)
    /\ ret.out.temperature_history = LastN(TemperatureReadings(args), 5)

(* six usage readings have arrived: the first, which differs from the      *)
(* second, is gone                                                         *)
C26_Witness ==
    /\ Len(UsageReadings(args)) = 6
    /\ UsageReadings(args)[1] # UsageReadings(args)[2]
    /\ Len(ret.out.cpu_usage_history) = 5
    /\ ret.out.cpu_usage_history[1] = UsageReadings(args)[2]
    /\ ret.out.cpu_usage_history[5] = UsageReadings(args)[6]

(* the first battery of the snapshot of an update, if there is one *)
HasBattery(u) == u.report.batteries # <<>>

OnAC(u) == HasBattery(u) /\ Head(u.report.batteries).ac_connected

Sampled(u) == HasBattery(u) /\ Head(u.report.batteries).capacity_percent.some

Percent(u) == Head(u.report.batteries).capacity_percent.val

(* update j of the log observed, off AC, a lower percentage than the       *)
(* battery sample before it, update i, taken at least 30 seconds earlier   *)
(* (0.0083 hours are 29.88 seconds), and nothing between them or since     *)
(* has reset the tracking                                                  *)
ObservedDecrease(log, i, j) ==
    /\ Sampled(log[i]) /\ Sampled(log[j]) /\ ~OnAC(log[j])
    /\ \A k \in (i + 1)..(j - 1) : ~Sampled(log[k]) /\ ~OnAC(log[k])
    /\ \A k \in (j + 1)..Len(log) : ~OnAC(log[k])
    /\ log[j].now - log[i].now >= 30
    /\ Percent(log[i]) > Percent(log[j])

(* C27: after an update whose first battery reports AC connected the       *)
(* discharge rate is unknown; and a known discharge rate is greater than 0 *)
(* and at most 100 %/hour, and is the hourly rate, capped at 100, of a     *)
(* percentage decrease that an update observed off AC at least 30 seconds  *)
(* after the battery sample before it.                                     *)
C27_DischargeRate ==
    LET rate == ret.out.battery_discharge_rate
    IN  /\ (args # <<>> /\ OnAC(args[Len(args)])) => ~rate.some
        /\ rate.some =>
               /\ rate.val > 0
               /\ rate.val <= 100 * Milli
               /\ \E j \in 1..Len(args) : \E i \in 1..(j - 1) :
                      /\ ObservedDecrease(args, i, j)
                      /\ rate.val =
                             Min2(((Percent(args[i]) - Percent(args[j]))
                                       * Milli * 3600)
                                      \div (args[j].now - args[i].now),
                                  100 * Milli)

(* a drop of thirty percent in thirty seconds after the battery was on AC: *)
(* the rate is capped                                                      *)
C27_Witness ==
    /\ \E k \in 1..Len(args) : OnAC(args[k])
    /\ ret.out.battery_discharge_rate = Some(100 * Milli)
    /\ ~OnAC(args[Len(args)])

----------------------------------------------------------------------------
(* The battery charge-threshold controller on a power-supply tree.         *)

File(w, v) == [writable |-> w, value |-> v]

NoFiles == [f \in {} |-> File(FALSE, 0)]

PatternFiles(i, w_start, w_stop, start, stop) ==
    (THRESHOLD_PATTERNS[i].start_path :> File(w_start, start))
    @@ (THRESHOLD_PATTERNS[i].stop_path :> File(w_stop, stop))

DevAC == [name |-> "AC", type |-> "Mains", files |-> NoFiles]

DevStandard ==
    [name |-> "BAT0", type |-> "Battery",
     files |-> PatternFiles(1, TRUE, TRUE, 0, 100)]

DevThinkPad ==
    [name |-> "BAT1", type |-> "Battery",
     files |-> PatternFiles(3, TRUE, TRUE, 40, 80)]

(* Standard files present but the stop file not writable; ASUS files fine *)
DevAsus ==
    [name |-> "BAT0", type |-> "Battery",
     files |-> PatternFiles(1, TRUE, FALSE, 0, 100)
               @@ PatternFiles(2, TRUE, TRUE, 0, 100)]

(* the Standard and the ThinkPad/Huawei files, all writable *)
DevDual ==
    [name |-> "BAT0", type |-> "Battery",
     files |-> PatternFiles(1, TRUE, TRUE, 0, 100)
               @@ PatternFiles(3, TRUE, TRUE, 0, 100)]

DevReadOnly ==
    [name |-> "BAT0", type |-> "Battery",
     files |-> PatternFiles(4, FALSE, FALSE, 0, 100)]

DevPlain == [name |-> "BAT0", type |-> "Battery", files |-> NoFiles]

DevUnreadable == [name |-> "hid", type |-> "unreadable", files |-> NoFiles]

DevUntyped ==
    [name |-> "ucsi", type |-> "missing",
     files |-> PatternFiles(1, TRUE, TRUE, 0, 100)]

PowerSupplyLayouts ==
    { [exists |-> FALSE, readable |-> FALSE, devices |-> <<>>],
      [exists |-> TRUE, readable |-> FALSE, devices |-> <<>>] }
    \cup { [exists |-> TRUE, readable |-> TRUE, devices |-> d] :
             d \in { <<>>, <<DevAC>>, <<DevAC, DevStandard>>,
                     <<DevStandard, DevThinkPad>>, <<DevAsus>>,
                     <<DevReadOnly>>, <<DevPlain, DevUntyped>>,
                     <<DevStandard, DevUnreadable>>,
                     <<DevPlain, DevUnreadable>>, <<DevDual>> } }

(* threshold arguments probed, of the u8 range 0..255 *)
U8Samples == {0, 40, 100, 101, 255}

(* what the file operations on one battery can do: the read of the current *)
(* stop value, the stop write, the start write, the restoring write; an    *)
(* operation that is not reached, or whose failure changes nothing, is     *)
(* listed as succeeding                                                    *)
IoOutcomes ==
    { io \in [read_ok : BOOLEAN, stop_ok : BOOLEAN, start_ok : BOOLEAN,
              restore_ok : BOOLEAN] :
        /\ (~io.stop_ok => io.read_ok /\ io.start_ok /\ io.restore_ok)
        /\ (io.start_ok => io.read_ok /\ io.restore_ok)
        /\ (~io.read_ok => io.restore_ok) }

(* how many batteries a call with these arguments goes on to write *)
SupportedCount(ps, start, stop) ==
    IF BatteryChargeThresholds_new(start, stop) /\ ps.exists
    THEN Len(find_supported_batteries(ps).batteries)
    ELSE 0

InitBattery ==
    /\ power_supply \in PowerSupplyLayouts
    /\ threshold_call = NoThresholdCall
    /\ HarnessUnused
    /\ EngineUnused
    /\ DaemonUnused

SetBatteryChargeThresholds ==
    \E start \in U8Samples, stop \in U8Samples :
      \E ios \in [1..SupportedCount(power_supply, start, stop) -> IoOutcomes] :
        LET r == set_battery_charge_thresholds(power_supply, start, stop, ios)
        IN  /\ power_supply' = [power_supply EXCEPT !.devices = r.devices]
            /\ threshold_call' =
                   [called |-> TRUE, start |-> start, stop |-> stop,
                    kind |-> r.kind, probed |-> r.probed, log |-> r.log]
            /\ UNCHANGED <<harness_vars, engine_vars, daemon_vars>>

NextBattery == SetBatteryChargeThresholds

SpecBattery == InitBattery /\ [][NextBattery]_vars

IsStartPath(file) ==
    \E i \in 1..Len(THRESHOLD_PATTERNS) : THRESHOLD_PATTERNS[i].start_path = file

IsStopPath(file) ==
    \E i \in 1..Len(THRESHOLD_PATTERNS) : THRESHOLD_PATTERNS[i].stop_path = file

(* position i of the log is a failed start-threshold write; it is reached  *)
(* only after the stop write at i-1 succeeded, the read being at i-2       *)
FailedStartWrite(log, i) ==
    /\ log[i].op = "write" /\ IsStartPath(log[i].file) /\ ~log[i].ok

(* position i+1 of the log writes value back to the stop file of the       *)
(* battery of position i                                                   *)
RestoreFollows(log, i, value) ==
    /\ i + 1 <= Len(log)
    /\ log[i + 1].op = "write" /\ log[i + 1].dev = log[i].dev
    /\ IsStopPath(log[i + 1].file) /\ log[i + 1].value = value

(* C4 as stated: whenever the start-threshold write fails on a battery     *)
(* after its stop-threshold write succeeded, the controller attempts to    *)
(* write the previously-read stop value back to the stop-threshold file    *)
(* before the call returns.                                                *)
C4_RestoreAlwaysAttempted ==
    threshold_call.called =>
        \A i \in 1..Len(threshold_call.log) :
            FailedStartWrite(threshold_call.log, i) =>
                /\ threshold_call.log[i - 2].op = "read"
                /\ threshold_call.log[i - 2].ok
                /\ RestoreFollows(threshold_call.log, i,
                                  threshold_call.log[i - 2].value)

(* C4 amended: whenever the start-threshold write fails on a battery after *)
(* its stop-threshold write succeeded and the battery's current stop value *)
(* had been read successfully, the controller attempts to write that value *)
(* back to the stop-threshold file before the call returns; when the read  *)
(* had failed, no restoring write is attempted on that battery.            *)
C4_RestoreAttemptedWhenRead ==
    threshold_call.called =>
        \A i \in 1..Len(threshold_call.log) :
            FailedStartWrite(threshold_call.log, i) =>
                /\ threshold_call.log[i - 1].op = "write"
                /\ IsStopPath(threshold_call.log[i - 1].file)
                /\ threshold_call.log[i - 1].ok
                /\ threshold_call.log[i - 1].dev = threshold_call.log[i].dev
                /\ threshold_call.log[i - 2].op = "read"
                /\ IF threshold_call.log[i - 2].ok
                   THEN RestoreFollows(threshold_call.log, i,
                                       threshold_call.log[i - 2].value)
                   ELSE \/ i = Len(threshold_call.log)
                        \/ threshold_call.log[i + 1].dev # threshold_call.log[i].dev

(* a call that failed its start write on a battery whose stop threshold    *)
(* was 100, wrote 40 and then 100 again, and returned an error             *)
C4_Witness ==
    /\ threshold_call.called /\ threshold_call.kind = "WriteError"
    /\ threshold_call.stop = 40
    /\ \E i \in 1..Len(threshold_call.log) :
           /\ FailedStartWrite(threshold_call.log, i)
           /\ threshold_call.log[i - 1].ok
           /\ threshold_call.log[i - 1].value = 40
           /\ RestoreFollows(threshold_call.log, i, 100)

(* a threshold write on device d failed in the call of this log *)
WriteFailedOn(log, d) ==
    \E i \in 1..Len(log) : log[i].dev = d /\ log[i].op = "write" /\ ~log[i].ok

(* the write that follows a failed start write on device d, the restoring  *)
(* write, failed                                                           *)
RollbackFailedOn(log, d) ==
    \E i \in 1..Len(log) - 1 :
        /\ FailedStartWrite(log, i) /\ log[i].dev = d
        /\ log[i + 1].dev = d /\ log[i + 1].op = "write" /\ ~log[i + 1].ok

(* the read of the current stop value of device d failed *)
ReadFailedOn(log, d) ==
    \E i \in 1..Len(log) : log[i].dev = d /\ log[i].op = "read" /\ ~log[i].ok

(* C38 as stated: a battery on which a threshold write of the call failed  *)
(* has, when the call returns, the threshold files it had before the call, *)
(* unless the restoring write failed.                                      *)
C38_FailedApplyLeavesFiles ==
    [][threshold_call'.called =>
         \A d \in 1..Len(power_supply.devices) :
             ( /\ WriteFailedOn(threshold_call'.log, d)
               /\ ~RollbackFailedOn(threshold_call'.log, d) )
                 => power_supply'.devices[d] = power_supply.devices[d]]_vars

(* C38: a battery on which a threshold write of the call failed has, when  *)
(* the call returns, the threshold files it had before the call, unless    *)
(* the current stop value could not be read before the writes, so that no  *)
(* restoring write is made, or the restoring write failed.                 *)
C38_FailedApplyLeavesFilesWhenRead ==
    [][threshold_call'.called =>
         \A d \in 1..Len(power_supply.devices) :
             ( /\ WriteFailedOn(threshold_call'.log, d)
               /\ ~ReadFailedOn(threshold_call'.log, d)
               /\ ~RollbackFailedOn(threshold_call'.log, d) )
                 => power_supply'.devices[d] = power_supply.devices[d]]_vars

(* a call for a stop threshold of 100 failed its start write on a battery  *)
(* that an earlier call had set to a stop threshold of 40, and the stop    *)
(* file holds 40 again                                                     *)
C38_Witness ==
    /\ threshold_call.called /\ threshold_call.stop = 100
    /\ \E i \in 1..Len(threshold_call.log) :
           /\ FailedStartWrite(threshold_call.log, i)
           /\ threshold_call.log[i - 1].ok
           /\ threshold_call.log[i - 1].value = 100
           /\ RestoreFollows(threshold_call.log, i, 40)
           /\ threshold_call.log[i + 1].ok
           /\ power_supply.devices[threshold_call.log[i].dev]
                  .files[threshold_call.log[i + 1].file].value = 40

(* C5: set_battery_charge_thresholds fails with an invalid-value error iff *)
(* start >= stop or stop > 100, and then no power-supply device is probed  *)
(* and no threshold file is written.                                       *)
C5_InvalidValueIff ==
    threshold_call.called =>
        /\ (threshold_call.kind = "InvalidValueError")
             <=> (threshold_call.start >= threshold_call.stop
                  \/ threshold_call.stop > 100)
        /\ (threshold_call.kind = "InvalidValueError" =>
                threshold_call.probed = <<>> /\ threshold_call.log = <<>>)

(* an invalid pair on a machine with two batteries that support thresholds *)
C5_Witness ==
    /\ threshold_call.called
    /\ threshold_call.start = 40 /\ threshold_call.stop = 101
    /\ threshold_call.kind = "InvalidValueError"
    /\ Len(find_supported_batteries(power_supply).batteries) = 2
    /\ threshold_call.log = <<>>

(* the devices of a tree that are batteries with some pattern whose two    *)
(* control files exist and are writable                                    *)
MatchedDevices(ps) ==
    { d \in 1..Len(ps.devices) :
        /\ ps.devices[d].type = "Battery"
        /\ \E i \in 1..Len(THRESHOLD_PATTERNS) :
               \A f \in {THRESHOLD_PATTERNS[i].start_path,
                         THRESHOLD_PATTERNS[i].stop_path} :
                   /\ f \in DOMAIN ps.devices[d].files
                   /\ ps.devices[d].files[f].writable }

(* the tree can be enumerated: it exists, it can be listed and every type  *)
(* file present can be read                                                *)
Enumerable(ps) ==
    /\ ps.exists /\ ps.readable
    /\ \A d \in 1..Len(ps.devices) : ps.devices[d].type # "unreadable"

(* the log holds a successful stop write followed by a successful start    *)
(* write on device d                                                       *)
FullySet(log, d) ==
    \E i \in 1..(Len(log) - 1) :
        /\ log[i].dev = d /\ log[i].op = "write" /\ IsStopPath(log[i].file)
        /\ log[i].ok
        /\ log[i + 1].dev = d /\ log[i + 1].op = "write"
        /\ IsStartPath(log[i + 1].file) /\ log[i + 1].ok

(* the log holds a write of the stop threshold of device d *)
Attempted(log, d) ==
    \E i \in 1..Len(log) :
        log[i].dev = d /\ log[i].op = "write" /\ IsStopPath(log[i].file)

(* C13: the threshold controller returns success iff at least one battery  *)
(* had its stop and then its start threshold written successfully; with    *)
(* valid thresholds on an enumerable tree with matched batteries, it       *)
(* returns a write error if none was, and every matched battery has been   *)
(* attempted.                                                              *)
C13_SuccessIffOneBatterySet ==
    threshold_call.called =>
        LET log == threshold_call.log
            matched == MatchedDevices(power_supply)
        IN  /\ threshold_call.kind = "Ok"
                   <=> \E d \in 1..Len(power_supply.devices) : FullySet(log, d)
            /\ ( /\ threshold_call.start < threshold_call.stop
                 /\ threshold_call.stop <= 100
                 /\ Enumerable(power_supply)
                 /\ matched # {} )
                   => /\ (\A d \in matched : ~FullySet(log, d))
                          => threshold_call.kind = "WriteError"
                      /\ \A d \in matched : Attempted(log, d)

(* position i of the log is the write of the new stop threshold of a       *)
(* battery: a write to a stop file that follows the read of that file      *)
NewStopWrite(log, i) ==
    /\ i > 1
    /\ log[i].op = "write" /\ IsStopPath(log[i].file)
    /\ log[i - 1].op = "read" /\ log[i - 1].dev = log[i].dev
    /\ log[i - 1].file = log[i].file

(* C19: on every battery the new stop threshold is written before the new  *)
(* start threshold; a start threshold is written only right after the stop *)
(* write on the same battery succeeded; and after a failed stop write      *)
(* nothing more is written on that battery.                                *)
C19_StopBeforeStart ==
    threshold_call.called =>
        LET log == threshold_call.log
        IN  \A i \in 1..Len(log) :
                /\ (log[i].op = "write" /\ IsStartPath(log[i].file))
                       => /\ NewStopWrite(log, i - 1)
                          /\ log[i - 1].dev = log[i].dev
                          /\ log[i - 1].ok
                          /\ log[i - 1].value = threshold_call.stop
                          /\ log[i].value = threshold_call.start
                /\ (NewStopWrite(log, i) /\ ~log[i].ok)
                       => \A j \in (i + 1)..Len(log) : log[j].dev # log[i].dev

(* two batteries: on the first the stop write failed and nothing followed, *)
(* on the second stop and then start were written                          *)
C19_Witness ==
    /\ threshold_call.called
    /\ Len(threshold_call.log) = 5
    /\ NewStopWrite(threshold_call.log, 2) /\ ~threshold_call.log[2].ok
    /\ threshold_call.log[3].op = "read"
    /\ threshold_call.log[3].dev # threshold_call.log[2].dev
    /\ NewStopWrite(threshold_call.log, 4) /\ threshold_call.log[4].ok
    /\ IsStartPath(threshold_call.log[5].file) /\ threshold_call.log[5].ok

(* the patterns whose start and stop files both exist on the device and    *)
(* can be opened for writing                                               *)
MatchingPatterns(dev) ==
    { k \in 1..Len(THRESHOLD_PATTERNS) :
        \A f \in {THRESHOLD_PATTERNS[k].start_path,
                  THRESHOLD_PATTERNS[k].stop_path} :
            f \in DOMAIN dev.files /\ dev.files[f].writable }

(* C20: the patterns are probed in the order Standard, ASUS,               *)
(* ThinkPad/Huawei, Framework; every file a call reads or writes belongs   *)
(* to a battery with a matching pattern (both control files exist and are  *)
(* writable) and is a control file of the first such pattern in that       *)
(* order; a device with no matching pattern is not touched.                *)
C20_FirstMatchingPattern ==
    /\ [k \in 1..Len(THRESHOLD_PATTERNS) |-> THRESHOLD_PATTERNS[k].description]
           = <<"Standard", "ASUS", "ThinkPad/Huawei", "Framework">>
    /\ threshold_call.called =>
           \A i \in 1..Len(threshold_call.log) :
               LET dev == power_supply.devices[threshold_call.log[i].dev]
                   matching == MatchingPatterns(dev)
               IN  /\ dev.type = "Battery"
                   /\ matching # {}
                   /\ \E k \in matching :
                          /\ \A m \in matching : k <= m
                          /\ threshold_call.log[i].file
                                 \in {THRESHOLD_PATTERNS[k].start_path,
                                      THRESHOLD_PATTERNS[k].stop_path}

(* a battery whose Standard stop file exists but is not writable and whose *)
(* ASUS files are: the thresholds were written to the ASUS files           *)
C20_Witness ==
    /\ threshold_call.called /\ threshold_call.kind = "Ok"
    /\ Len(power_supply.devices) = 1
    /\ THRESHOLD_PATTERNS[1].stop_path \in DOMAIN power_supply.devices[1].files
    /\ MatchingPatterns(power_supply.devices[1]) = {2}
    /\ \E i \in 1..Len(threshold_call.log) :
           /\ threshold_call.log[i].op = "write" /\ threshold_call.log[i].ok
           /\ threshold_call.log[i].file = THRESHOLD_PATTERNS[2].stop_path

C13_Witness ==
    /\ threshold_call.called /\ threshold_call.kind = "Ok"
    /\ MatchedDevices(power_supply) = {1, 2}
    /\ ~FullySet(threshold_call.log, 1) /\ Attempted(threshold_call.log, 1)
    /\ FullySet(threshold_call.log, 2)

----------------------------------------------------------------------------
(* The policy engine as a state machine: the configuration and the machine *)
(* and the governor override file are fixed at the start; every cycle gets *)
(* a snapshot and a forced mode.                                           *)

ProfileFull(turbo, enable_auto_turbo, start, stop) ==
    [governor |-> Some("schedutil"), turbo |-> Some(turbo),
     epp |-> Some("balance_performance"), epb |-> Some("6"),
     min_freq_mhz |-> Some(800), max_freq_mhz |-> Some(3000),
     platform_profile |-> Some("balanced"),
     turbo_auto_settings |-> NoTurboAutoSettings,
     enable_auto_turbo |-> enable_auto_turbo,
     battery_charge_thresholds |-> Some([start |-> start, stop |-> stop])]

ProfileEmpty ==
    [governor |-> NoString, turbo |-> NoString, epp |-> NoString,
     epb |-> NoString, min_freq_mhz |-> None, max_freq_mhz |-> None,
     platform_profile |-> NoString,
     turbo_auto_settings |-> NoTurboAutoSettings,
     enable_auto_turbo |-> TRUE,
     battery_charge_thresholds |-> NoThresholds]

EngineConfigs ==
    { AppConfig(ProfileFull("Always", TRUE, 40, 80),
                ProfileFull("Auto", TRUE, 80, 40), DaemonConfig_default),
      AppConfig(ProfileFull("Auto", TRUE, 40, 80),
                ProfileFull("Never", TRUE, 40, 80), DaemonConfig_default),
      AppConfig(ProfileFull("Auto", FALSE, 40, 80),
                ProfileConfig_default, DaemonConfig_default),
      AppConfig(ProfileConfig_default, ProfileEmpty, DaemonConfig_default) }

Primitives ==
    {"governor", "turbo", "epp", "epb", "min_freq", "max_freq",
     "platform_profile"}

(* machines: everything works; nothing is supported; one primitive is not  *)
(* supported or is denied; one value is rejected; no or few governors      *)
EngineHosts ==
    { Host(TRUE, AllGovernors, o) :
        o \in {AllOutcome("Ok"), AllOutcome("NotSupported")}
              \cup { [AllOutcome("Ok") EXCEPT ![d] = k] :
                       d \in Primitives,
                       k \in {"NotSupported", "PermissionDenied"} }
              \cup { [AllOutcome("Ok") EXCEPT ![d] = "InvalidValueError"] :
                       d \in {"epp", "min_freq"} } }
    \cup { Host(FALSE, {}, AllOutcome("Ok")),
           Host(TRUE, {"performance"}, AllOutcome("Ok")),
           Host(TRUE, {"schedutil"}, AllOutcome("Ok")) }

(* the snapshots of the cycles: the monitor gives every battery the same   *)
(* ac_connected (monitor.rs 563-638)                                       *)
EngineBatteries ==
    { <<>>, <<BatteryInfo(TRUE, Some(50))>>, <<BatteryInfo(FALSE, Some(50))>>,
      <<BatteryInfo(FALSE, Some(50)), BatteryInfo(FALSE, Some(90))>> }

EngineReports ==
    { SystemReport(b, c, None, 400) :
        b \in EngineBatteries,
        c \in { <<CpuCoreInfo(Some(50 * Milli))>> } }

ForceModes == {NoString, Some("Powersave"), Some("Performance")}

(* the file operations of the threshold step in an engine cycle: all       *)
(* succeed, or the stop write fails                                        *)
IoAllOk ==
    [read_ok |-> TRUE, stop_ok |-> TRUE, start_ok |-> TRUE,
     restore_ok |-> TRUE]

EngineIoOutcomes == {IoAllOk, [IoAllOk EXCEPT !.stop_ok = FALSE]}

(* the power-supply trees of the machines: a battery with threshold        *)
(* control, no battery at all, a directory that cannot be listed           *)
EnginePowerSupplies ==
    { [exists |-> TRUE, readable |-> TRUE, devices |-> <<DevAC, DevStandard>>],
      [exists |-> TRUE, readable |-> TRUE, devices |-> <<DevAC>>],
      [exists |-> TRUE, readable |-> FALSE, devices |-> <<>>] }

InitEngine ==
    /\ host \in EngineHosts
    /\ config \in EngineConfigs
    /\ governor_override \in {NoString, Some("performance")}
    /\ PREVIOUS_TURBO_STATE = FALSE
    /\ TURBO_STATE_INITIALIZED = FALSE
    /\ engine_call = NoEngineCall
    /\ scenario = ScenarioStart
    /\ power_supply \in EnginePowerSupplies
    /\ threshold_call = NoThresholdCall
    /\ HarnessUnused
    /\ DaemonUnused

(* the effect of one call of determine_and_apply_settings on the statics,  *)
(* the threshold files and the observation                                 *)
ApplyEffect(report, force_mode, io) ==
    \E r \in { determine_and_apply_settings(report, config, force_mode,
                  [host |-> host, governor_override |-> governor_override,
                   previous_state |-> PREVIOUS_TURBO_STATE,
                   initialized |-> TURBO_STATE_INITIALIZED,
                   power_supply |-> power_supply,
                   ios |-> [i \in 1..Len(power_supply.devices) |-> io]]) } :
        /\ PREVIOUS_TURBO_STATE' = r.previous_state
        /\ TURBO_STATE_INITIALIZED' = r.initialized
        /\ power_supply' = [power_supply EXCEPT !.devices = r.devices]
        /\ engine_call' =
               [called |-> TRUE, report |-> report,
                force_mode |-> force_mode,
                governor_override |-> governor_override,
                result |-> r.result,
                selected |-> r.selected, calls |-> r.calls,
                decision |-> r.decision, thresholds |-> r.thresholds,
                threshold_log |-> r.threshold_log]
        /\ scenario' = ScenarioStep(scenario, r.decision)
        /\ UNCHANGED <<host, config, governor_override, threshold_call>>

(* one call of determine_and_apply_settings *)
ApplyCycle(reports, force_modes, io_outcomes) ==
    \E report \in reports, force_mode \in force_modes, io \in io_outcomes :
        ApplyEffect(report, force_mode, io)

EngineCycle ==
    /\ ApplyCycle(EngineReports, ForceModes, EngineIoOutcomes)
    /\ UNCHANGED <<harness_vars, daemon_vars>>

NextEngine == EngineCycle

SpecEngine == InitEngine /\ [][NextEngine]_vars

(* The auto-turbo transition alone: profiles with turbo Auto under         *)
(* automatic management, on snapshots with varied usage and temperature.   *)

ProfileAuto(turbo_auto_settings) ==
    [ProfileEmpty EXCEPT !.turbo = Some("Auto"),
                         !.turbo_auto_settings = turbo_auto_settings]

TurboAutoSettings(high, low, temp) ==
    [load_threshold_high |-> high, load_threshold_low |-> low,
     temp_threshold_high |-> temp]

(* no settings (the defaults are used), valid settings up to the edges of  *)
(* the ranges, and settings that break each rule of the validation         *)
TurboSettingsDomain ==
    { NoTurboAutoSettings,
      Some(TurboAutoSettings(60 * Milli, 40 * Milli, 90 * Milli)),
      Some(TurboAutoSettings(100 * Milli, 0, 110 * Milli)),
      Some(TurboAutoSettings(30 * Milli, 70 * Milli, 75 * Milli)),
      Some(TurboAutoSettings(50 * Milli, 50 * Milli, 75 * Milli)),
      Some(TurboAutoSettings(100 * Milli + 1, 30 * Milli, 75 * Milli)),
      Some(TurboAutoSettings(70 * Milli, 0 - 1, 75 * Milli)),
      Some(TurboAutoSettings(70 * Milli, 30 * Milli, 0)),
      Some(TurboAutoSettings(70 * Milli, 30 * Milli, 110 * Milli + 1)) }

TurboConfigs ==
    { AppConfig(ProfileAuto(s), ProfileAuto(s), DaemonConfig_default) :
        s \in TurboSettingsDomain }

TurboHosts ==
    { Host(TRUE, AllGovernors, [AllOutcome("Ok") EXCEPT !.turbo = k]) :
        k \in {"Ok", "NotSupported", "PermissionDenied"} }

TurboCores ==
    { <<>>, <<CpuCoreInfo(None)>>,
      <<CpuCoreInfo(None), CpuCoreInfo(Some(80 * Milli))>>,
      <<CpuCoreInfo(Some(60 * Milli)), CpuCoreInfo(Some(100 * Milli))>> }
    \cup { <<CpuCoreInfo(Some(u))>> :
             u \in {20 * Milli, 30 * Milli, 30 * Milli + 1, 50 * Milli,
                    70 * Milli - 1, 70 * Milli} }

TurboTemperatures == {None, Some(75 * Milli - 1), Some(75 * Milli)}

TurboReports ==
    { SystemReport(<<>>, c, t, 400) :
        c \in TurboCores, t \in TurboTemperatures }

InitTurbo ==
    /\ host \in TurboHosts
    /\ config \in TurboConfigs
    /\ governor_override = NoString
    /\ PREVIOUS_TURBO_STATE = FALSE
    /\ TURBO_STATE_INITIALIZED = FALSE
    /\ engine_call = NoEngineCall
    /\ scenario = ScenarioStart
    /\ BatteryUnused
    /\ HarnessUnused
    /\ DaemonUnused

TurboCycle ==
    /\ ApplyCycle(TurboReports, {NoString}, {IoAllOk})
    /\ UNCHANGED <<harness_vars, daemon_vars>>

NextTurbo == TurboCycle

SpecTurbo == InitTurbo /\ [][NextTurbo]_vars

(* C2: from the uninitialized hysteresis state, with thresholds 70/30 and   *)
(* no temperature breach, the decisions on average usages 80, 50, 50, 20   *)
(* are Enabled, Enabled, Enabled, Disabled; and every decision without a   *)
(* temperature breach enables at usage >= high, disables at usage <= low   *)
(* and keeps an existing previous state at a usage strictly between.       *)
C2_TurboHysteresis ==
    /\ scenario.on =>
           scenario.states =
               SubSeq(<<TRUE, TRUE, TRUE, FALSE>>, 1, Len(scenario.states))
    /\ LET d == engine_call.decision
           usage == d.avg_cpu_usage.val
       IN  d.decided /\ ~TemperatureBreach(d) /\ d.avg_cpu_usage.some =>
               /\ usage >= d.turbo_settings.load_threshold_high
                      => d.enable_turbo
               /\ usage <= d.turbo_settings.load_threshold_low
                      => ~d.enable_turbo
               /\ ( /\ usage > d.turbo_settings.load_threshold_low
                    /\ usage < d.turbo_settings.load_threshold_high
                    /\ d.previous_turbo_enabled.some )
                      => d.enable_turbo = d.previous_turbo_enabled.val

(* the whole scenario has run *)
C2_Witness ==
    /\ scenario.on /\ scenario.states = <<TRUE, TRUE, TRUE, FALSE>>
    /\ engine_call.decision.avg_cpu_usage = Some(20 * Milli)
    /\ engine_call.decision.previous_turbo_enabled = Some(TRUE)

(* C3: an auto-turbo decision taken with a known average temperature at or *)
(* above temp_threshold_high is Disabled, whatever the usage and whatever  *)
(* the previous hysteresis state.                                          *)
C3_TemperatureDisables ==
    LET d == engine_call.decision
    IN  d.decided /\ d.cpu_temp.some
        /\ d.cpu_temp.val >= d.turbo_settings.temp_threshold_high
            => ~d.enable_turbo

(* a hot, loaded machine whose turbo was enabled *)
C3_Witness ==
    LET d == engine_call.decision
    IN  /\ d.decided /\ TemperatureBreach(d)
        /\ d.avg_cpu_usage.some
        /\ d.avg_cpu_usage.val >= d.turbo_settings.load_threshold_high
        /\ d.previous_turbo_enabled = Some(TRUE)
        /\ ~d.enable_turbo /\ ~PREVIOUS_TURBO_STATE

(* C18: a cycle that manages turbo automatically returns a                 *)
(* ConfigurationError iff the settings it uses have load_threshold_high    *)
(* <= load_threshold_low, or load_threshold_high > 100, or                 *)
(* load_threshold_low < 0, or temp_threshold_high <= 0, or                 *)
(* temp_threshold_high > 110; and then no decision is taken, the           *)
(* hysteresis state is not touched and set_turbo is not invoked.           *)
C18_TurboSettingsValidated ==
    engine_call.called /\ engine_call.selected # "none" =>
        LET p == config[engine_call.selected]
            settings == IF p.turbo_auto_settings.some
                        THEN p.turbo_auto_settings.val
                        ELSE TurboAutoSettings_default
            invalid ==
                \/ settings.load_threshold_high <= settings.load_threshold_low
                \/ settings.load_threshold_high > 100 * Milli
                \/ settings.load_threshold_low < 0
                \/ settings.temp_threshold_high <= 0
                \/ settings.temp_threshold_high > 110 * Milli
        IN  (p.turbo = Some("Auto") /\ p.enable_auto_turbo) =>
                /\ engine_call.result = "ConfigurationError" <=> invalid
                /\ invalid => /\ ~engine_call.decision.decided
                              /\ ~TURBO_STATE_INITIALIZED
                              /\ engine_call.calls = <<>>

(* a cycle with a temperature threshold just above 110 *)
C18_Witness ==
    /\ engine_call.called /\ engine_call.selected = "charger"
    /\ config.charger.turbo_auto_settings
           = Some(TurboAutoSettings(70 * Milli, 30 * Milli, 110 * Milli + 1))
    /\ engine_call.result = "ConfigurationError"
    /\ engine_call.calls = <<>>

(* C21: an auto-turbo decision is Disabled when the average usage is       *)
(* unknown and the temperature is unknown or below temp_threshold_high,    *)
(* whatever the previous state; and when the usage lies strictly between   *)
(* the load thresholds, the temperature does not breach and there is no    *)
(* previous state.                                                         *)
C21_DefaultDisabled ==
    LET d == engine_call.decision
    IN  d.decided /\ ~TemperatureBreach(d) =>
            /\ ~d.avg_cpu_usage.some => ~d.enable_turbo
            /\ ( /\ d.avg_cpu_usage.some
                 /\ d.avg_cpu_usage.val > d.turbo_settings.load_threshold_low
                 /\ d.avg_cpu_usage.val < d.turbo_settings.load_threshold_high
                 /\ ~d.previous_turbo_enabled.some ) => ~d.enable_turbo

(* turbo was enabled, then a snapshot without usage and temperature *)
C21_Witness ==
    LET d == engine_call.decision
    IN  /\ d.decided /\ ~d.avg_cpu_usage.some /\ ~d.cpu_temp.some
        /\ d.previous_turbo_enabled = Some(TRUE)
        /\ ~d.enable_turbo /\ ~PREVIOUS_TURBO_STATE

(* C22: every cycle that takes an auto-turbo decision leaves that decision *)
(* in the hysteresis state, whether set_turbo then succeeds or fails, and  *)
(* takes as its previous state what the cycle before it left there.        *)
C22_DecisionPersistedBeforeSetTurbo ==
    [][engine_call'.decision.decided =>
           /\ TURBO_STATE_INITIALIZED'
           /\ PREVIOUS_TURBO_STATE' = engine_call'.decision.enable_turbo
           /\ engine_call'.decision.previous_turbo_enabled =
                  IF TURBO_STATE_INITIALIZED THEN Some(PREVIOUS_TURBO_STATE)
                  ELSE NoBool]_vars

(* on a host where every set_turbo fails, a usage between the thresholds   *)
(* keeps the Enabled decision of the failed cycle before it                *)
C22_Witness ==
    LET d == engine_call.decision
    IN  /\ host.outcome.turbo = "PermissionDenied"
        /\ engine_call.result = "ControlError"
        /\ d.decided /\ ~TemperatureBreach(d)
        /\ d.avg_cpu_usage.some
        /\ d.avg_cpu_usage.val > d.turbo_settings.load_threshold_low
        /\ d.avg_cpu_usage.val < d.turbo_settings.load_threshold_high
        /\ d.previous_turbo_enabled = Some(TRUE)
        /\ d.enable_turbo /\ PREVIOUS_TURBO_STATE

(* the dimensions of the selected profile that are configured, as the      *)
(* primitives they invoke, in the order of the cycle                       *)
ConfiguredPrimitives(p) ==
    (IF p.governor.some THEN <<"set_governor">> ELSE <<>>)
    \o (IF p.turbo.some THEN <<"set_turbo">> ELSE <<>>)
    \o (IF p.epp.some THEN <<"set_epp">> ELSE <<>>)
    \o (IF p.epb.some THEN <<"set_epb">> ELSE <<>>)
    \o (IF p.min_freq_mhz.some THEN <<"set_min_frequency">> ELSE <<>>)
    \o (IF p.max_freq_mhz.some THEN <<"set_max_frequency">> ELSE <<>>)
    \o (IF p.platform_profile.some THEN <<"set_platform_profile">> ELSE <<>>)

(* the primitives a cycle invoked for the profile, without the override *)
ProfileCalls(call) ==
    IF call.governor_override.some THEN Tail(call.calls) ELSE call.calls

(* C6: in an apply cycle in which no primitive reports anything other than *)
(* Ok or NotSupported, the cycle does not fail and the primitive of every   *)
(* configured dimension of the selected profile is invoked.                *)
C6_NotSupportedAbsorbed ==
    engine_call.called
    /\ (\A i \in 1..Len(engine_call.calls) :
            engine_call.calls[i].outcome \in {"Ok", "NotSupported"})
        => /\ engine_call.result = "Ok"
           /\ engine_call.selected # "none"
           /\ LET names == ConfiguredPrimitives(config[engine_call.selected])
                  invoked == ProfileCalls(engine_call)
              IN  /\ Len(invoked) = Len(names)
                  /\ \A i \in 1..Len(names) : invoked[i].primitive = names[i]

(* C7: with forced mode Performance the charger profile is selected, with  *)
(* Powersave the battery profile, whatever the snapshot; without a forced  *)
(* mode the charger profile is selected iff the snapshot has no batteries  *)
(* or some battery reports AC connected, otherwise the battery profile.    *)
C7_ProfileSelection ==
    engine_call.called /\ engine_call.selected # "none" =>
        LET report == engine_call.report
            on_ac == \/ Len(report.batteries) = 0
                     \/ \E i \in 1..Len(report.batteries) :
                            report.batteries[i].ac_connected
        IN  /\ engine_call.selected \in {"charger", "battery"}
            /\ engine_call.force_mode = Some("Performance")
                   => engine_call.selected = "charger"
            /\ engine_call.force_mode = Some("Powersave")
                   => engine_call.selected = "battery"
            /\ ~engine_call.force_mode.some
                   => (engine_call.selected = "charger" <=> on_ac)

(* a forced Powersave cycle on a snapshot that is on AC power *)
C7_Witness ==
    /\ engine_call.called
    /\ engine_call.force_mode = Some("Powersave")
    /\ engine_call.report.batteries = <<BatteryInfo(TRUE, Some(50))>>
    /\ engine_call.selected = "battery"

(* C11: a cycle that reaches the battery threshold step returns Ok         *)
(* whatever that step comes to (an invalid pair, or any error of the       *)
(* threshold controller); a cycle in which every primitive invoked         *)
(* succeeded and the auto-turbo settings were valid returns Ok.            *)
C11_ThresholdsBestEffort ==
    engine_call.called =>
        /\ engine_call.thresholds # "none" => engine_call.result = "Ok"
        /\ ( /\ \A i \in 1..Len(engine_call.calls) :
                     engine_call.calls[i].outcome = "Ok"
             /\ engine_call.result # "ConfigurationError" )
               => engine_call.result = "Ok"

(* a cycle whose threshold step failed to write, and which returned Ok     *)
C11_Witness ==
    /\ engine_call.called /\ engine_call.selected # "none"
    /\ config[engine_call.selected].battery_charge_thresholds
           = Some([start |-> 40, stop |-> 80])
    /\ engine_call.thresholds = "WriteError"
    /\ engine_call.threshold_log # <<>>
    /\ engine_call.result = "Ok"

(* C15: a call of the set_turbo primitive with Auto is rejected: it        *)
(* returns an error (a call that returns Ok has written the boost control  *)
(* file).                                                                  *)
C15_AutoRejectedBySetTurbo ==
    engine_call.called =>
        \A i \in 1..Len(engine_call.calls) :
            ( /\ engine_call.calls[i].primitive = "set_turbo"
              /\ engine_call.calls[i].value = "Auto" )
                => engine_call.calls[i].outcome # "Ok"

(* whether the outcome of the i-th primitive call of a cycle lets the      *)
(* cycle go on: Ok, NotSupported, and InvalidValueError for the governor   *)
(* of the profile (the call after the override, if there is one)           *)
Tolerated(call, i) ==
    \/ call.calls[i].outcome \in {"Ok", "NotSupported"}
    \/ /\ call.calls[i].outcome = "InvalidValueError"
       /\ call.calls[i].primitive = "set_governor"
       /\ i = (IF call.governor_override.some THEN 2 ELSE 1)

IsPrefix(s, t) == Len(s) <= Len(t) /\ s = SubSeq(t, 1, Len(s))

(* C12: the primitives a cycle invokes for the profile are, in order, a    *)
(* prefix of governor, turbo, EPP, EPB, min frequency, max frequency,      *)
(* platform profile (those configured); the battery threshold step runs    *)
(* only after all of them; and a primitive error that is neither           *)
(* NotSupported nor, for the profile governor, InvalidValue is the last    *)
(* call of the cycle, is returned, and no threshold file is touched.       *)
C12_OrderedAbortOnError ==
    engine_call.called =>
        LET calls == engine_call.calls
            invoked == ProfileCalls(engine_call)
            names == IF engine_call.selected = "none" THEN <<>>
                     ELSE ConfiguredPrimitives(config[engine_call.selected])
        IN  /\ IsPrefix([i \in 1..Len(invoked) |-> invoked[i].primitive],
                        names)
            /\ engine_call.governor_override.some =>
                   /\ Len(calls) >= 1
                   /\ calls[1] = Call("set_governor",
                                      engine_call.governor_override.val,
                                      calls[1].outcome)
            /\ engine_call.thresholds # "none" => Len(invoked) = Len(names)
            /\ \A i \in 1..Len(calls) :
                   ~Tolerated(engine_call, i) =>
                       /\ i = Len(calls)
                       /\ engine_call.result = "ControlError"
                       /\ engine_call.thresholds = "none"
                       /\ engine_call.threshold_log = <<>>

(* a cycle denied at EPP: governor, turbo and EPP were invoked, nothing    *)
(* after them, and the cycle returned the error                            *)
C12_Witness ==
    /\ engine_call.called
    /\ [i \in 1..Len(engine_call.calls) |-> engine_call.calls[i].primitive]
           = <<"set_governor", "set_turbo", "set_epp">>
    /\ engine_call.calls[3].outcome = "PermissionDenied"
    /\ engine_call.result = "ControlError"
    /\ engine_call.thresholds = "none"
    /\ config[engine_call.selected].battery_charge_thresholds.some

(* C23: when set_governor returns InvalidValue or NotSupported for the     *)
(* governor of the selected profile, the cycle goes on to the next         *)
(* configured dimension, and it fails only at a later step: a cycle that   *)
(* returns a control error ends with a later primitive that did not return *)
(* Ok, and if every later primitive returns Ok, every configured dimension *)
(* is invoked and the cycle returns Ok.                                    *)
C23_ProfileGovernorTolerated ==
    engine_call.called /\ engine_call.selected # "none" =>
        LET names == ConfiguredPrimitives(config[engine_call.selected])
            invoked == ProfileCalls(engine_call)
            skipped ==
                /\ Len(invoked) >= 1
                /\ invoked[1].primitive = "set_governor"
                /\ invoked[1].outcome \in {"InvalidValueError", "NotSupported"}
        IN  skipped /\ engine_call.result # "ConfigurationError" =>
                /\ Len(names) >= 2 =>
                       /\ Len(invoked) >= 2
                       /\ invoked[2].primitive = names[2]
                /\ engine_call.result = "ControlError" =>
                       /\ Len(invoked) >= 2
                       /\ invoked[Len(invoked)].outcome # "Ok"
                /\ (\A i \in 2..Len(invoked) : invoked[i].outcome = "Ok")
                    => /\ engine_call.result = "Ok"
                       /\ Len(invoked) = Len(names)

(* a machine without the governor of the profile: the governor is rejected *)
(* and the six other dimensions are applied                                *)
C23_Witness ==
    /\ engine_call.called /\ engine_call.selected # "none"
    /\ LET invoked == ProfileCalls(engine_call)
       IN  /\ Len(invoked) = 7
           /\ invoked[1].primitive = "set_governor"
           /\ invoked[1].outcome = "InvalidValueError"
           /\ invoked[7].primitive = "set_platform_profile"
    /\ engine_call.result = "Ok"

(* C24: in a cycle that finds a governor override, the first primitive     *)
(* invoked is set_governor with the override; if it returns Ok or          *)
(* NotSupported the cycle goes on to select a profile and apply it; if it  *)
(* returns any other error, InvalidValue included, the cycle returns that  *)
(* error with no profile selected, no further primitive invoked, no turbo  *)
(* decision taken and no threshold file touched.                           *)
C24_OverrideAppliedFirst ==
    engine_call.called /\ engine_call.governor_override.some =>
        LET calls == engine_call.calls
        IN  /\ Len(calls) >= 1
            /\ calls[1] = Call("set_governor",
                               engine_call.governor_override.val,
                               set_governor(engine_call.governor_override.val,
                                            host))
            /\ calls[1].outcome \in {"Ok", "NotSupported"} =>
                   /\ engine_call.selected \in {"charger", "battery"}
                   /\ \/ ConfiguredPrimitives(config[engine_call.selected])
                             = <<>>
                      \/ engine_call.result = "ConfigurationError"
                      \/ /\ Len(calls) >= 2
                         /\ calls[2].primitive =
                                ConfiguredPrimitives(
                                    config[engine_call.selected])[1]
            /\ calls[1].outcome \notin {"Ok", "NotSupported"} =>
                   /\ Len(calls) = 1
                   /\ engine_call.result = "ControlError"
                   /\ engine_call.selected = "none"
                   /\ ~engine_call.decision.decided
                   /\ engine_call.thresholds = "none"
                   /\ engine_call.threshold_log = <<>>

(* the override names a governor the machine does not have, while the      *)
(* governor of the profiles is available                                   *)
C24_Witness ==
    /\ engine_call.called
    /\ engine_call.governor_override = Some("performance")
    /\ host.available_governors = {"schedutil"}
    /\ engine_call.calls
           = <<Call("set_governor", "performance", "InvalidValueError")>>
    /\ engine_call.result = "ControlError"
    /\ engine_call.selected = "none"

(* the set_turbo calls of a cycle *)
TurboCalls(call) == SelectSeq(call.calls, LAMBDA c : c.primitive = "set_turbo")

(* the cycle got past the governor of the profile p *)
GovernorPassed(call, p) ==
    p.governor.some =>
        /\ Len(ProfileCalls(call)) >= 1
        /\ ProfileCalls(call)[1].outcome
               \in {"Ok", "InvalidValueError", "NotSupported"}

(* what C25 says of the cycle just run, for a profile whose turbo is Auto *)
C25_CycleShape ==
    engine_call.called /\ engine_call.selected # "none"
    /\ config[engine_call.selected].turbo = Some("Auto") =>
        LET p == config[engine_call.selected]
            d == engine_call.decision
            turbo_calls == TurboCalls(engine_call)
            reached == /\ GovernorPassed(engine_call, p)
                       /\ engine_call.result # "ConfigurationError"
        IN  IF p.enable_auto_turbo
            THEN /\ reached <=> d.decided
                 /\ d.decided <=> Len(turbo_calls) = 1
                 /\ \A i \in 1..Len(turbo_calls) :
                        turbo_calls[i].value =
                            IF d.enable_turbo THEN "Always" ELSE "Never"
            ELSE /\ ~d.decided
                 /\ reached <=> Len(turbo_calls) = 1
                 /\ \A i \in 1..Len(turbo_calls) :
                        turbo_calls[i].value = "Auto"

(* C25: a cycle whose selected profile has turbo Auto and auto-management  *)
(* enabled, and that reaches the turbo step with valid settings, takes a   *)
(* hysteresis decision and invokes set_turbo once, with Always if the      *)
(* decision is Enabled and Never if it is Disabled; with auto-management   *)
(* disabled it invokes set_turbo once with Auto, takes no decision and     *)
(* leaves the hysteresis state as it was.                                  *)
C25_AutoTurboDispatch ==
    /\ []C25_CycleShape
    /\ [][( /\ engine_call'.selected # "none"
            /\ config[engine_call'.selected].turbo = Some("Auto")
            /\ ~config[engine_call'.selected].enable_auto_turbo )
          => UNCHANGED <<PREVIOUS_TURBO_STATE, TURBO_STATE_INITIALIZED>>]_vars

(* after a cycle that left Enabled in the hysteresis state, a cycle of a   *)
(* profile with auto-management disabled hands Auto to set_turbo           *)
C25_Witness ==
    /\ engine_call.called /\ engine_call.selected = "charger"
    /\ config.charger.turbo = Some("Auto")
    /\ ~config.charger.enable_auto_turbo
    /\ \E i \in 1..Len(engine_call.calls) :
           engine_call.calls[i] = Call("set_turbo", "Auto", "Ok")
    /\ ~engine_call.decision.decided
    /\ TURBO_STATE_INITIALIZED

----------------------------------------------------------------------------
(* Specification of the frame of the hysteresis statics: cycles of         *)
(* profiles with every kind of turbo setting, auto settings that fail      *)
(* validation included, on machines where the governor of the charger      *)
(* profile is applied, is denied, and where the governor override is       *)
(* rejected.                                                               *)

FrameConfigs ==
    { AppConfig([ProfileAuto(NoTurboAutoSettings) EXCEPT
                    !.governor = Some("schedutil")],
                b, DaemonConfig_default) :
        b \in { ProfileEmpty,
                [ProfileEmpty EXCEPT !.turbo = Some("Always")],
                [ProfileEmpty EXCEPT !.turbo = Some("Never")],
                [ProfileEmpty EXCEPT !.turbo = Some("Auto"),
                                     !.enable_auto_turbo = FALSE],
                ProfileAuto(NoTurboAutoSettings),
                ProfileAuto(Some(TurboAutoSettings(30 * Milli, 70 * Milli,
                                                   75 * Milli))) } }

FrameHosts ==
    { HostAllOk,
      Host(TRUE, AllGovernors,
           [AllOutcome("Ok") EXCEPT !.governor = "PermissionDenied"]),
      Host(TRUE, {"schedutil"}, AllOutcome("Ok")) }

FrameReports ==
    { SystemReport(b, <<CpuCoreInfo(Some(u))>>, None, 400) :
        b \in { <<>>, <<BatteryInfo(FALSE, Some(50))>> },
        u \in {20 * Milli, 50 * Milli, 80 * Milli} }

InitFrame ==
    /\ host \in FrameHosts
    /\ config \in FrameConfigs
    /\ governor_override \in {NoString, Some("performance")}
    /\ PREVIOUS_TURBO_STATE = FALSE
    /\ TURBO_STATE_INITIALIZED = FALSE
    /\ engine_call = NoEngineCall
    /\ scenario = ScenarioStart
    /\ BatteryUnused
    /\ HarnessUnused
    /\ DaemonUnused

FrameCycle ==
    /\ ApplyCycle(FrameReports, {NoString}, {IoAllOk})
    /\ UNCHANGED <<harness_vars, daemon_vars>>

NextFrame == FrameCycle

SpecFrame == InitFrame /\ [][NextFrame]_vars

(* C32: a cycle changes PREVIOUS_TURBO_STATE or TURBO_STATE_INITIALIZED    *)
(* only if its selected profile has turbo Auto with auto-management        *)
(* enabled and the cycle got past the override and the governor to take a  *)
(* decision; and TURBO_STATE_INITIALIZED, once true, stays true.           *)
C32_HysteresisFrame ==
    [][/\ ( \/ PREVIOUS_TURBO_STATE' # PREVIOUS_TURBO_STATE
            \/ TURBO_STATE_INITIALIZED' # TURBO_STATE_INITIALIZED ) =>
              /\ engine_call'.selected # "none"
              /\ config[engine_call'.selected].turbo = Some("Auto")
              /\ config[engine_call'.selected].enable_auto_turbo
              /\ GovernorPassed(engine_call', config[engine_call'.selected])
              /\ engine_call'.decision.decided
       /\ TURBO_STATE_INITIALIZED => TURBO_STATE_INITIALIZED']_vars

(* turbo was enabled by an auto-managed cycle; the cycle just run, of a    *)
(* profile with turbo Never, switched turbo off and left the state Enabled *)
C32_Witness ==
    /\ engine_call.called /\ engine_call.selected = "battery"
    /\ config.battery.turbo = Some("Never")
    /\ engine_call.calls = <<Call("set_turbo", "Never", "Ok")>>
    /\ ~engine_call.decision.decided
    /\ TURBO_STATE_INITIALIZED /\ PREVIOUS_TURBO_STATE

(* C34: a cycle that returns a ConfigurationError from the validation of   *)
(* the auto-turbo settings leaves PREVIOUS_TURBO_STATE and                 *)
(* TURBO_STATE_INITIALIZED as they were, takes no decision and does not    *)
(* invoke set_turbo.                                                       *)
C34_InvalidSettingsNoEffect ==
    [][engine_call'.result = "ConfigurationError" =>
           /\ UNCHANGED <<PREVIOUS_TURBO_STATE, TURBO_STATE_INITIALIZED>>
           /\ ~engine_call'.decision.decided
           /\ TurboCalls(engine_call') = <<>>]_vars

(* turbo was enabled by a cycle of the charger profile; the cycle just run *)
(* selected a battery profile whose low threshold exceeds the high one     *)
C34_Witness ==
    /\ engine_call.called /\ engine_call.selected = "battery"
    /\ engine_call.result = "ConfigurationError"
    /\ config.battery.turbo_auto_settings.some
    /\ config.battery.turbo_auto_settings.val.load_threshold_high
           <= config.battery.turbo_auto_settings.val.load_threshold_low
    /\ engine_call.calls = <<>>
    /\ TURBO_STATE_INITIALIZED /\ PREVIOUS_TURBO_STATE

----------------------------------------------------------------------------
(* The classification of the system state applied to drawn snapshots and   *)
(* usage windows.                                                          *)

ClassifyReports ==
    { SystemReport(b, <<>>, t, l) :
        b \in { <<>>, <<BatteryInfo(TRUE, Some(50))>>,
                <<BatteryInfo(FALSE, Some(50))>> },
        t \in {None, Some(50 * Milli), Some(80 * Milli), Some(85 * Milli)},
        l \in {400, 1000, 3000, 3500} }

ClassifyHistories ==
    { [SystemHistory_default(0) EXCEPT !.cpu_usage_history = h] :
        h \in { <<>>, <<5 * Milli, 5 * Milli>>, <<50 * Milli, 50 * Milli>> } }

InitClassify ==
    /\ args \in [report : ClassifyReports, history : ClassifyHistories]
    /\ ret = NotApplied
    /\ BatteryUnused
    /\ EngineUnused
    /\ DaemonUnused

ApplyDetermineSystemState ==
    /\ ~ret.applied
    /\ ret' = Applied(determine_system_state(args.report, args.history))
    /\ UNCHANGED <<args, battery_vars, engine_vars, daemon_vars>>

NextClassify == ApplyDetermineSystemState

SpecClassify == InitClassify /\ [][NextClassify]_vars

(* C8: a snapshot with 1-minute load 3.5 and average temperature 85 C is   *)
(* classified HighTemp, and a snapshot with 1-minute load 3.5, unknown     *)
(* temperature and an idle usage window is classified HighLoad.            *)
C8_ClassificationPrecedence ==
    ret.applied =>
        /\ ( /\ args.report.load_avg_1min = 3500
             /\ args.report.average_temperature_celsius = Some(85 * Milli) )
               => ret.out = "HighTemp"
        /\ ( /\ args.report.load_avg_1min = 3500
             /\ ~args.report.average_temperature_celsius.some
             /\ is_system_idle(args.history) )
               => ret.out = "HighLoad"

(* the power source of a snapshot: the charger when there is no battery or *)
(* the first battery reports AC connected                                  *)
PowerSourceState(report) ==
    IF report.batteries = <<>> \/ Head(report.batteries).ac_connected
    THEN "OnAC" ELSE "OnBattery"

----------------------------------------------------------------------------
(* The daemon: run_daemon is started with the configuration loaded from    *)
(* the configuration file, then iterates; the file can be modified and the *)
(* shutdown signal can arrive while it runs.                               *)

MaxIterations == 3

DaemonConfigs ==
    { DaemonConfig_default,
      [DaemonConfig_default EXCEPT !.adaptive_interval = TRUE],
      [DaemonConfig_default EXCEPT !.poll_interval_sec = 0],
      [DaemonConfig_default EXCEPT !.adaptive_interval = TRUE,
                                   !.min_poll_interval_sec = 30,
                                   !.max_poll_interval_sec = 5],
      [DaemonConfig_default EXCEPT !.adaptive_interval = TRUE,
                                   !.min_poll_interval_sec = 0,
                                   !.max_poll_interval_sec = 0],
      [DaemonConfig_default EXCEPT !.min_poll_interval_sec = 0,
                                   !.max_poll_interval_sec = 0] }

DaemonHosts ==
    { HostAllOk,
      Host(TRUE, AllGovernors,
           [AllOutcome("Ok") EXCEPT !.turbo = "PermissionDenied"]) }

DaemonReports ==
    { SystemReport(b, <<CpuCoreInfo(Some(u))>>, None, 400) :
        b \in { <<>>, <<BatteryInfo(TRUE, Some(50))>>,
                <<BatteryInfo(FALSE, Some(50))>> },
        u \in {5 * Milli, 50 * Milli} }
    \cup { SystemReport(<<>>, <<CpuCoreInfo(Some(50 * Milli))>>,
                        Some(85 * Milli), 3500) }
    \cup { SystemReport(<<BatteryInfo(FALSE, Some(50)),
                          BatteryInfo(FALSE, Some(90))>>,
                        <<CpuCoreInfo(Some(50 * Milli))>>, None, 400) }

Collected ==
    { [ok |-> FALSE, report |-> SystemReport(<<>>, <<>>, None, 0)] }
    \cup { [ok |-> TRUE, report |-> r] : r \in DaemonReports }

(* the poll intervals an edit of the configuration file can set *)
PollIntervalsOnDisk == {5, 10}

(* the daemon starts on a machine with no governor override, or on a       *)
(* machine without the performance governor where a governor override of   *)
(* performance was left on disk (cpu.rs 598-610)                           *)
InitDaemon ==
    /\ config_file \in DaemonConfigs
    /\ config = AppConfig(ProfileConfig_default, ProfileConfig_default,
                          config_file)
    /\ \/ host \in DaemonHosts /\ governor_override = NoString
       \/ /\ host = Host(TRUE, {"schedutil"}, AllOutcome("Ok"))
          /\ governor_override = Some("performance")
    /\ daemon = DaemonNotStarted
    /\ config_age = 0
    /\ clock = 0
    /\ PREVIOUS_TURBO_STATE = FALSE
    /\ TURBO_STATE_INITIALIZED = FALSE
    /\ engine_call = NoEngineCall
    /\ scenario = ScenarioStart
    /\ BatteryUnused
    /\ HarnessUnused
    /\ WatcherUnused

(* run_daemon is called: daemon.rs 393-453 *)
StartDaemon ==
    /\ daemon.phase = "init"
    /\ daemon' = run_daemon_start(daemon, config, clock)
    /\ UNCHANGED <<config_file, config_age, clock, engine_vars, battery_vars,
                   harness_vars, watcher_vars>>

(* the loop condition is evaluated: daemon.rs 455, 573-575 *)
LoopCheck ==
    /\ daemon.phase = "loop" /\ daemon.at = "check"
    /\ loop_condition(daemon) => daemon.iterations < MaxIterations
    /\ daemon' = run_daemon_check(daemon)
    /\ UNCHANGED <<config_file, config_age, clock, engine_vars, battery_vars,
                   harness_vars, watcher_vars>>

(* the body of one iteration of the main loop: daemon.rs 456-561 *)
DaemonIteration ==
    /\ daemon.phase = "loop" /\ daemon.at = "body"
    /\ \E collected \in Collected :
         \E d \in { run_daemon_iteration(daemon, config, collected,
                        determine_and_apply_settings(collected.report, config,
                            NoString,
                            [host |-> host,
                             governor_override |-> governor_override,
                             previous_state |-> PREVIOUS_TURBO_STATE,
                             initialized |-> TURBO_STATE_INITIALIZED,
                             power_supply |-> power_supply,
                             ios |-> [i \in 1..Len(power_supply.devices)
                                        |-> IoAllOk]]).result,
                        clock) } :
             /\ IF collected.ok
                THEN ApplyEffect(collected.report, NoString, IoAllOk)
                ELSE UNCHANGED engine_vars /\ UNCHANGED battery_vars
             /\ daemon' = d
             /\ config_age' = Min2(config_age + 1, 2)
             /\ UNCHANGED <<config_file, clock, harness_vars, watcher_vars>>

(* the sleep that ends an iteration: daemon.rs 563-570 *)
Sleep ==
    /\ daemon.phase = "loop" /\ daemon.at = "sleep"
    /\ daemon' = run_daemon_sleep(daemon)
    /\ clock' = clock + daemon.current_poll_interval
    /\ UNCHANGED <<config_file, config_age, engine_vars, battery_vars,
                   harness_vars, watcher_vars>>

(* a shutdown signal runs the handler: daemon.rs 430-434 *)
Signal ==
    /\ daemon.phase = "loop" /\ daemon.running
    /\ daemon' = shutdown_handler(daemon)
    /\ UNCHANGED <<config_file, config_age, clock, engine_vars, battery_vars,
                   harness_vars, watcher_vars>>

(* the configuration file is edited while the daemon runs *)
ModifyConfigFile ==
    /\ daemon.phase = "loop" /\ daemon.running
    /\ \E v \in PollIntervalsOnDisk \ {config_file.poll_interval_sec} :
           config_file' = [config_file EXCEPT !.poll_interval_sec = v]
    /\ config_age' = 0
    /\ UNCHANGED <<daemon, clock, engine_vars, battery_vars,
                   harness_vars, watcher_vars>>

NextDaemon ==
    \/ StartDaemon
    \/ LoopCheck
    \/ DaemonIteration
    \/ Sleep
    \/ Signal
    \/ ModifyConfigFile

SpecDaemon == InitDaemon /\ [][NextDaemon]_vars

(* C16: run_daemon started with max_poll_interval < min_poll_interval      *)
(* returns an error before the first cycle (no snapshot collected, no      *)
(* primitive invoked, no sleep); and an iteration whose interval           *)
(* computation returned an error has cleared the running flag and ended    *)
(* the loop without sleeping.                                              *)
C16_InvalidIntervalsFatal ==
    /\ ( /\ daemon.phase # "init"
         /\ config.daemon.max_poll_interval_sec
                < config.daemon.min_poll_interval_sec )
           => /\ daemon.phase = "stopped" /\ daemon.result = "Err"
              /\ daemon.iterations = 0 /\ daemon.last = NoIteration
              /\ ~engine_call.called /\ clock = 0
    /\ daemon.last.optimal = "Err"
           => /\ ~daemon.running
              /\ daemon.phase = "stopped"
              /\ daemon.last.slept = 0

(* the daemon was started with min 30 and max 5 and has returned the error *)
C16_Witness ==
    /\ config.daemon.min_poll_interval_sec = 30
    /\ config.daemon.max_poll_interval_sec = 5
    /\ daemon.phase = "stopped" /\ daemon.result = "Err"
    /\ daemon.iterations = 0 /\ ~engine_call.called

(* C17: once the handler has stored the flag, the loop runs no body other  *)
(* than the one that was in progress when the flag was stored, and that    *)
(* one at most once (with its sleep); when the daemon then stops, it       *)
(* returns Ok.                                                             *)
C17_ShutdownAtIterationBoundary ==
    daemon.shutdown.requested =>
        /\ ~daemon.running
        /\ daemon.iterations
               <= daemon.shutdown.iterations
                  + (IF daemon.shutdown.at = "body" THEN 1 ELSE 0)
        /\ (daemon.phase = "loop" /\ daemon.at = "body")
               => /\ daemon.shutdown.at = "body"
                  /\ daemon.iterations = daemon.shutdown.iterations
        /\ daemon.phase = "stopped" => daemon.result = "Ok"

(* the signal arrived during the body of the second iteration: that        *)
(* iteration was completed and slept, no third one was started, and the    *)
(* daemon stopped with Ok                                                  *)
C17_Witness ==
    /\ daemon.shutdown.requested /\ daemon.shutdown.at = "body"
    /\ daemon.shutdown.iterations = 1
    /\ daemon.iterations = 2
    /\ daemon.last.collected /\ daemon.last.slept > 0
    /\ daemon.phase = "stopped" /\ daemon.result = "Ok"

(* the clamped new interval of daemon.rs 125-126 for the history h of an   *)
(* iteration at instant now                                                *)
ClampedNewInterval(h, on_battery, now) ==
    LET params == [base_interval |-> config.daemon.poll_interval_sec,
                   min_interval |-> config.daemon.min_poll_interval_sec,
                   max_interval |-> config.daemon.max_poll_interval_sec,
                   cpu_volatility |-> get_cpu_volatility(h),
                   temp_volatility |-> get_temperature_volatility(h),
                   battery_discharge_rate |-> h.battery_discharge_rate,
                   last_user_activity |-> now - h.last_user_activity,
                   is_system_idle |-> is_system_idle(h),
                   on_battery |-> on_battery]
    IN  clamp(volatility_adjusted(params,
                  idle_adjusted(params, battery_adjusted(params))),
              Max2(config.daemon.min_poll_interval_sec, 1),
              config.daemon.max_poll_interval_sec)

(* C29: an iteration whose interval computation succeeds leaves in the     *)
(* cache, as the computed interval, the clamped new interval when the      *)
(* cache was empty, and otherwise (7 * cached + 3 * new) / 10 clamped      *)
(* again to [max(min,1), max]; every other step of the daemon, an          *)
(* iteration that computes no interval or whose computation fails          *)
(* included, leaves the cache as it was.                                   *)
C29_BlendWithCached ==
    [][LET cached == daemon.system_history.last_computed_interval
           h == daemon'.system_history
           lo == Max2(config.daemon.min_poll_interval_sec, 1)
           hi == config.daemon.max_poll_interval_sec
       IN  IF /\ daemon'.iterations = daemon.iterations + 1
              /\ daemon'.last.collected /\ daemon'.last.optimal = "Ok"
           THEN \E new_interval \in
                    { ClampedNewInterval(h, daemon'.last.on_battery, clock) } :
                    h.last_computed_interval =
                        Some(clamp(IF cached.some
                                   THEN (cached.val * 7 + new_interval * 3)
                                            \div 10
                                   ELSE new_interval,
                                   lo, hi))
           ELSE h.last_computed_interval = cached]_vars

(* the second iteration of an adaptive daemon with the default bounds: 5   *)
(* seconds were computed on AC, 10 are now computed on battery, 6 returned *)
C29_Witness ==
    /\ daemon.iterations = 2 /\ daemon.last.collected
    /\ daemon.last.optimal = "Ok" /\ daemon.last.on_battery
    /\ config.daemon.poll_interval_sec = 5
    /\ ClampedNewInterval(daemon.system_history, TRUE, clock) = 10
    /\ daemon.system_history.last_computed_interval = Some(6)

(* C31: an iteration that obtains a snapshot updates the history, applies  *)
(* the policy, recomputes the interval and then sleeps, in that order; and *)
(* when the policy engine returned an error the interval is recomputed all *)
(* the same, the daemon goes on to the sleep and the loop condition, and   *)
(* it stops only on a shutdown signal.                                     *)
C31_IterationOrder ==
    daemon.last.collected =>
        /\ IsPrefix(daemon.last.steps,
                    <<"update", "apply", "interval", "sleep">>)
        /\ Len(daemon.last.steps) >= 3
        /\ ( /\ daemon.last.engine_result # "Ok"
             /\ daemon.last.optimal \notin {"Err", "Panic"} ) =>
               /\ config.daemon.adaptive_interval
                      => daemon.last.optimal = "Ok"
               /\ daemon.phase \in {"loop", "stopped"}
               /\ daemon.phase = "stopped" =>
                      /\ daemon.shutdown.requested
                      /\ daemon.result = "Ok"
               /\ (daemon.phase = "loop" /\ ~daemon.shutdown.requested)
                      => daemon.running

(* the second iteration on a machine where every cycle of the engine       *)
(* fails: the interval was recomputed and slept on                         *)
C31_Witness ==
    /\ daemon.iterations = 2 /\ daemon.last.collected
    /\ daemon.last.engine_result = "ControlError"
    /\ daemon.last.optimal = "Ok"
    /\ daemon.last.steps = <<"update", "apply", "interval", "sleep">>
    /\ daemon.phase = "loop" /\ daemon.running

(* C33: while the daemon is in its loop, under a configuration accepted at *)
(* startup, the poll interval it sleeps on is at least 1 second.           *)
C33_PollIntervalNeverZero ==
    daemon.phase = "loop" => daemon.current_poll_interval >= 1

(* C37 as stated: in an iteration that collected a snapshot, the daemon    *)
(* took the machine to be on battery exactly when the policy engine,       *)
(* called without a forced mode on the same snapshot, selected the battery *)
(* profile.                                                                *)
C37_OnBatteryIffBatteryProfile ==
    daemon.last.collected =>
        /\ engine_call.called
        /\ engine_call.force_mode = NoString
        /\ daemon.last.on_battery <=> engine_call.selected = "battery"

(* C37: in an iteration that collected a snapshot, the policy engine was   *)
(* called without a forced mode on that snapshot, and if it got as far as  *)
(* selecting a profile it selected the battery profile exactly when the    *)
(* daemon took the machine to be on battery; it selects no profile only    *)
(* when the governor override is set and is rejected.                      *)
C37_PowerSourceAgreed ==
    daemon.last.collected =>
        /\ engine_call.called
        /\ engine_call.force_mode = NoString
        /\ engine_call.selected \in {"charger", "battery"}
               => (daemon.last.on_battery <=> engine_call.selected = "battery")
        /\ engine_call.selected \notin {"charger", "battery"}
               => /\ governor_override.some
                  /\ engine_call.result \notin {"Ok", "none"}

(* an iteration on a snapshot of two batteries, neither on AC *)
C37_Witness ==
    /\ daemon.last.collected /\ daemon.last.on_battery
    /\ engine_call.called /\ engine_call.selected = "battery"
    /\ Len(engine_call.report.batteries) = 2

(* C40: an iteration whose snapshot collection fails leaves the history,   *)
(* the two turbo statics and the current poll interval as they were and    *)
(* calls no control primitive (nothing the policy engine writes or records *)
(* changes); the daemon then sleeps for the unchanged interval and returns *)
(* to the loop condition.                                                  *)
C40_FailedCollectionChangesNothing ==
    [][ /\ ( /\ daemon.phase = "loop" /\ daemon.at = "body"
             /\ daemon'.iterations = daemon.iterations + 1
             /\ ~daemon'.last.collected )
               => /\ daemon'.system_history = daemon.system_history
                  /\ daemon'.current_poll_interval
                         = daemon.current_poll_interval
                  /\ UNCHANGED <<engine_vars, battery_vars>>
                  /\ daemon'.phase = "loop" /\ daemon'.at = "sleep"
                  /\ daemon'.running = daemon.running
        /\ ( /\ daemon.phase = "loop" /\ daemon.at = "sleep"
             /\ ~daemon.last.collected /\ daemon'.at # "sleep" )
               => /\ daemon'.last.slept = daemon.current_poll_interval
                  /\ daemon'.current_poll_interval
                         = daemon.current_poll_interval
                  /\ daemon'.phase = "loop" /\ daemon'.at = "check"
                  /\ clock' = clock + daemon.current_poll_interval ]_vars

(* a failed collection after an iteration on battery had doubled the       *)
(* interval: the daemon has slept for the doubled interval and is back at  *)
(* the loop condition, the history still holding the earlier snapshot      *)
C40_Witness ==
    /\ daemon.phase = "loop" /\ daemon.at = "check" /\ daemon.running
    /\ daemon.iterations >= 2
    /\ ~daemon.last.collected
    /\ daemon.last.slept = daemon.current_poll_interval
    /\ daemon.current_poll_interval # Max2(config.daemon.poll_interval_sec, 1)
    /\ daemon.system_history.cpu_usage_history # <<>>
    /\ engine_call.called

(* C10: after the configuration file was changed while the daemon runs,    *)
(* from the second iteration after the change on, the base interval the    *)
(* iteration used is the poll interval of the configuration file.          *)
C10_ReloadedOnNextCycle ==
    (daemon.phase = "loop" /\ daemon.last.collected /\ config_age >= 2)
        => daemon.last.base_interval = config_file.poll_interval_sec

----------------------------------------------------------------------------
(* The adaptive interval under a computed optimal interval that stays the  *)
(* same from cycle to cycle: the loop of run_daemon reduced to the update  *)
(* of current_poll_interval (daemon.rs 497-534) and the sleep (563-570).   *)
(* The optimal interval is one that calculate_optimal_interval can return, *)
(* that is, one within the configured limits.  The loop runs for as long   *)
(* as the running flag is set, so a cycle that can be taken is taken.      *)

NoCycle == [at |-> "body", current_poll_interval |-> 0, previous |-> 0]

InitAdaptive ==
    /\ \E poll_interval_sec \in 0..DaemonConfig_default.max_poll_interval_sec,
          optimal_interval \in DaemonConfig_default.min_poll_interval_sec
                               ..DaemonConfig_default.max_poll_interval_sec :
           /\ args = [daemon |-> [DaemonConfig_default EXCEPT
                                    !.adaptive_interval = TRUE,
                                    !.poll_interval_sec = poll_interval_sec],
                      optimal_interval |-> optimal_interval]
           /\ ret = [applied |-> FALSE,
                     out |-> [NoCycle EXCEPT
                                !.current_poll_interval =
                                    Max2(poll_interval_sec, 1),
                                !.previous = Max2(poll_interval_sec, 1)]]
    /\ BatteryUnused
    /\ EngineUnused
    /\ DaemonUnused

(* daemon.rs 497-534 with Ok(optimal_interval) at 498 *)
AdaptiveInterval ==
    /\ ret.out.at = "body"
    /\ ret' = Applied(
           [at |-> "sleep",
            current_poll_interval |->
                clamp(step_toward(ret.out.current_poll_interval,
                                  args.optimal_interval),
                      args.daemon.min_poll_interval_sec,
                      args.daemon.max_poll_interval_sec),
            previous |-> ret.out.current_poll_interval])
    /\ UNCHANGED <<args, battery_vars, engine_vars, daemon_vars>>

(* daemon.rs 563-570, then the loop condition at 455 *)
AdaptiveSleep ==
    /\ ret.out.at = "sleep"
    /\ ret' = [ret EXCEPT !.out.at = "body"]
    /\ UNCHANGED <<args, battery_vars, engine_vars, daemon_vars>>

NextAdaptive == AdaptiveInterval \/ AdaptiveSleep

SpecAdaptive == InitAdaptive /\ [][NextAdaptive]_vars /\ WF_vars(NextAdaptive)

(* the distance between two intervals *)
Distance(a, b) == IF a >= b THEN a - b ELSE b - a

(* a cycle leaves the interval on the side of the optimal it was on, no    *)
(* farther from it, and closer when the two differ by more than a second   *)
MovesTowardOptimal ==
    ret.applied =>
        /\ ret.out.previous <= args.optimal_interval
               => ret.out.current_poll_interval <= args.optimal_interval
        /\ ret.out.previous >= args.optimal_interval
               => ret.out.current_poll_interval >= args.optimal_interval
        /\ Distance(ret.out.current_poll_interval, args.optimal_interval)
               <= Distance(ret.out.previous, args.optimal_interval)

(* C36: with the computed optimal interval the same in every cycle, the    *)
(* current poll interval moves toward it without overshooting and          *)
(* eventually equals it, from above and from below.                        *)
C36_ReachesOptimal ==
    /\ []MovesTowardOptimal
    /\ <>(ret.out.current_poll_interval = args.optimal_interval)

----------------------------------------------------------------------------
(* The configuration watcher (config/watcher.rs).  watcher.rx is the       *)
(* channel the notify thread sends to, oldest item first; an item is the   *)
(* kind of an event, or "Error" for an Err(notify::Error).  notify is the  *)
(* world of that thread: the time in milliseconds, whether the file        *)
(* exists and can be loaded, and the events of the burst still to come.    *)
(* The sender lives in the ConfigWatcher itself (field _watcher), so the   *)
(* channel is never disconnected while check_for_changes runs.             *)

EventKinds == {"Modify", "Create", "Remove", "Other", "Error"}

(* watcher.rs 96 *)
DebounceMs == 250

RECURSIVE process_events(_, _, _, _)
(* watcher.rs 49-91: the loop over try_recv until the channel is empty;    *)
(* should_reload, once set, stays set, and last_event_time is taken anew   *)
(* at every event processed while it is set                                *)
process_events(rx, should_reload, last_event_time, now) ==
    IF rx = <<>>
    THEN [should_reload |-> should_reload, last_event_time |-> last_event_time]
    ELSE IF Head(rx) = "Error"
    THEN process_events(Tail(rx), should_reload, last_event_time, now)
    ELSE LET reload == should_reload \/ Head(rx) \in {"Modify", "Create"}
         IN  process_events(Tail(rx), reload,
                            IF reload THEN now ELSE last_event_time, now)

MaxBurst == 3

(* the events of one burst follow one another within the debounce time *)
BurstGaps == {0, 100}

RECURSIVE PossibleBurst(_, _)
(* a file is modified, accessed or removed only while it exists *)
PossibleBurst(b, exists) ==
    IF b = <<>> THEN TRUE
    ELSE IF Head(b) \in {"Modify", "Other"}
    THEN exists /\ PossibleBurst(Tail(b), exists)
    ELSE IF Head(b) = "Remove"
    THEN exists /\ PossibleBurst(Tail(b), FALSE)
    ELSE IF Head(b) = "Create"
    THEN PossibleBurst(Tail(b), TRUE)
    ELSE PossibleBurst(Tail(b), exists)

Bursts ==
    { b \in UNION { [1..n -> EventKinds] : n \in 1..MaxBurst } :
        PossibleBurst(b, TRUE) }

(* ConfigWatcher::new, watcher.rs 21-38, and one burst about to happen *)
InitWatcher ==
    /\ watcher = [rx |-> <<>>, last_event_time |-> 0]
    /\ notify \in [now : {0}, exists : {TRUE}, loadable : BOOLEAN,
                   burst : Bursts]
    /\ watcher_call = NoWatcherCall
    /\ daemon = DaemonNotStarted
    /\ config_file = DaemonConfig_default
    /\ config_age = 0
    /\ clock = 0
    /\ HarnessUnused
    /\ BatteryUnused
    /\ EngineUnused

(* the notify thread sends the next event of the burst *)
FileEvent ==
    /\ notify.burst # <<>>
    /\ \E gap \in BurstGaps :
           notify' = [notify EXCEPT
                        !.burst = Tail(@),
                        !.now = @ + gap,
                        !.exists = IF Head(notify.burst) = "Remove" THEN FALSE
                                   ELSE IF Head(notify.burst) = "Create"
                                   THEN TRUE ELSE @]
    /\ watcher' = [watcher EXCEPT !.rx = Append(@, Head(notify.burst))]
    /\ UNCHANGED <<watcher_call, daemon, config_file, config_age, clock,
                   harness_vars, battery_vars, engine_vars>>

(* check_for_changes up to its sleep, watcher.rs 45-102: the channel is    *)
(* emptied; without a modify or create event the call returns None         *)
CheckForChanges ==
    /\ watcher_call.at = "idle"
    /\ \E r \in { process_events(watcher.rx, FALSE, watcher.last_event_time,
                                 notify.now) } :
           /\ watcher' = [rx |-> <<>>, last_event_time |-> r.last_event_time]
           /\ watcher_call' =
                  [called |-> TRUE,
                   at |-> IF r.should_reload THEN "debounce" ELSE "idle",
                   seen |-> watcher.rx,
                   should_reload |-> r.should_reload,
                   result |-> IF r.should_reload THEN "pending" ELSE "None",
                   reloads |-> watcher_call.reloads]
    /\ UNCHANGED <<notify, daemon, config_file, config_age, clock,
                   harness_vars, battery_vars, engine_vars>>

(* check_for_changes from the end of its sleep, watcher.rs 102-124: the    *)
(* call wakes DebounceMs after last_event_time and loads the file if it    *)
(* exists; the channel is not read again                                   *)
DebounceAndReload ==
    /\ watcher_call.at = "debounce"
    /\ notify' = [notify EXCEPT
                    !.now = Max2(@, watcher.last_event_time + DebounceMs)]
    /\ watcher_call' =
           [watcher_call EXCEPT
              !.at = "idle",
              !.result = IF ~notify.exists THEN "None"
                         ELSE IF notify.loadable THEN "SomeOk" ELSE "SomeErr",
              !.reloads = IF notify.exists THEN @ + 1 ELSE @]
    /\ UNCHANGED <<watcher, daemon, config_file, config_age, clock,
                   harness_vars, battery_vars, engine_vars>>

NextWatcher == FileEvent \/ CheckForChanges \/ DebounceAndReload

SpecWatcher == InitWatcher /\ [][NextWatcher]_vars

(* C30: the events of one burst lead to at most one reload, however they   *)
(* interleave with the calls of check_for_changes; and a call that finds   *)
(* no modify and no create event in the channel returns None.              *)
C30_BurstReloadsOnce ==
    /\ watcher_call.reloads <= 1
    /\ ( /\ watcher_call.called /\ watcher_call.at = "idle"
         /\ \A i \in 1..Len(watcher_call.seen) :
                watcher_call.seen[i] \notin {"Modify", "Create"} )
           => watcher_call.result = "None"

----------------------------------------------------------------------------
(* The force-governor command (main.rs 348-350) and the cycles of the      *)
(* policy engine that run after it.                                        *)

(* cpu.rs 553-613.  override_file is the content of GOVERNOR_OVERRIDE_PATH *)
(* (cpu.rs 550), absent or a governor name.  io.dir is what the directory  *)
(* step comes to (555-567: it exists or is created, or the creation is     *)
(* denied or fails otherwise) and io.file what the removal (573-581) or    *)
(* the write (593-601) of the file comes to.  The name written is the      *)
(* lowercase name of the mode (592).  Returns the result and the file.     *)
force_governor(mode, override_file, h, io) ==
    IF io.dir # "Ok"
    THEN [result |-> io.dir, override_file |-> override_file]
    ELSE IF mode = "Reset"
    THEN IF override_file.some
         THEN IF io.file = "Ok"
              THEN [result |-> "Ok", override_file |-> NoString]
              ELSE [result |-> io.file, override_file |-> override_file]
         ELSE [result |-> "Ok", override_file |-> override_file]
    ELSE LET governor == IF mode = "Performance" THEN "performance"
                         ELSE "powersave"
         IN  IF io.file # "Ok"
             THEN [result |-> io.file, override_file |-> override_file]
             ELSE [result |-> set_governor(governor, h),
                   override_file |-> Some(governor)]

GovernorOverrideModes == {"Performance", "Powersave", "Reset"}

(* what a file-system step can come to: cpu.rs 557-566, 574-581, 593-601 *)
ForceIoOutcomes ==
    [dir : {"Ok", "PermissionDenied", "Io"},
     file : {"Ok", "PermissionDenied", "Io"}]

(* machines on which both governors can be set, on which only schedutil    *)
(* is available, on which the governor files cannot be written, and on     *)
(* which there is no list of governors                                     *)
ForceHosts ==
    { HostAllOk,
      Host(TRUE, {"schedutil"}, AllOutcome("Ok")),
      Host(TRUE, AllGovernors,
           [AllOutcome("Ok") EXCEPT !.governor = "PermissionDenied"]),
      Host(FALSE, {}, AllOutcome("Ok")) }

InitForce ==
    /\ host \in ForceHosts
    /\ config = AppConfig(ProfileConfig_default, ProfileConfig_default,
                          DaemonConfig_default)
    /\ governor_override = NoString
    /\ PREVIOUS_TURBO_STATE = FALSE
    /\ TURBO_STATE_INITIALIZED = FALSE
    /\ engine_call = NoEngineCall
    /\ scenario = ScenarioStart
    /\ BatteryUnused
    /\ HarnessUnused
    /\ DaemonUnused

(* one run of the command; args keeps the mode and the override there was  *)
(* before it, ret the result                                               *)
ForceGovernor ==
    \E mode \in GovernorOverrideModes, io \in ForceIoOutcomes :
      \E r \in { force_governor(mode, governor_override, host, io) } :
        /\ governor_override' = r.override_file
        /\ args' = [mode |-> mode, io |-> io, before |-> governor_override]
        /\ ret' = Applied(r.result)
        /\ UNCHANGED <<host, config, PREVIOUS_TURBO_STATE,
                       TURBO_STATE_INITIALIZED, engine_call, scenario,
                       battery_vars, daemon_vars>>

(* a cycle of the daemon's policy engine: daemon.rs 475 *)
ForceCycle ==
    /\ ApplyCycle(FrameReports, {NoString}, {IoAllOk})
    /\ UNCHANGED <<harness_vars, daemon_vars>>

NextForce == ForceGovernor \/ ForceCycle

SpecForce == InitForce /\ [][NextForce]_vars

(* C39: after a force-governor command for Performance or Powersave that   *)
(* returned an error, the governor override on disk is the one there was   *)
(* before the command, which is what a later cycle of the policy engine    *)
(* reads (cpu.rs 616-622).                                                 *)
C39_FailedForcePersistsNothing ==
    ( /\ ret.applied /\ ret.out # "Ok"
      /\ args.mode \in {"Performance", "Powersave"} )
        => governor_override = args.before

====
